---- MODULE Spec2Model ----
(***************************************************************************)
(* Model of the repository-access engine of beryllium (src/lib/git.js) and *)
(* of the raw-content handler (src/lib/handlers/rawHandler.js), the        *)
(* archive handler (src/lib/handlers/archiveHandler.js) and the api        *)
(* handlers for blobs, trees, contents and commits.                        *)
(*                                                                         *)
(* Strings that the code slices or compares by prefix (ref names, object   *)
(* ids, url segments, paths) are sequences of one-character strings.       *)
(***************************************************************************)
EXTENDS Naturals, Sequences, FiniteSets, TLC

\* ---------------------------------------------------------------- bounds

\* number of commits the working repository may hold
MaxCommits == 2

\* length of a full object id (src/lib/git.js:183)
ShaLen == 40

\* number of commits of a cloned history
MaxChain == 3

\* ---------------------------------------------------------------- strings

HexSeq == <<"0", "1", "2", "3", "4", "5", "6", "7", "8", "9", "a", "b", "c", "d", "e", "f">>

HexChars == {HexSeq[i] : i \in 1..Len(HexSeq)}

Hex(n) == HexSeq[n + 1]

\* a short prefix padded with "0" to a full object id
Pad(p) == p \o [i \in 1..(ShaLen - Len(p)) |-> "0"]

\* String.prototype.startsWith
StartsWith(s, p) == Len(p) <= Len(s) /\ SubSeq(s, 1, Len(p)) = p

\* String.prototype.endsWith
EndsWith(s, p) == Len(p) <= Len(s) /\ SubSeq(s, Len(s) - Len(p) + 1, Len(s)) = p

\* String.prototype.substr(n): the string from 0-based index n on
Substr(s, n) == SubSeq(s, n + 1, Len(s))

\* ---------------------------------------------------------------- names

HEADNAME == <<"H", "E", "A", "D">>
M == <<"m">>
B == <<"b", "1">>
BW == <<"b", "1", "/", "w">>

\* branch names git may create in the repository
BranchNames == {M, BW}
\* tag names git may create in the repository
TagNames == {B}

\* the tracked file and a differently-cased spelling of it
FileF == <<"f">>
FileUpperF == <<"F">>
Files == {FileF}

\* file contents: every edit writes bytes that no commit holds yet
Contents == 1..(MaxCommits + 1)

\* ---------------------------------------------------------------- object ids

\* git hash-object of a blob: content-addressed, injective on contents
BlobOid(n) == Pad(<<"d", Hex(n)>>)

\* content n of file FileF in a tree (0: the file is not in the tree)
TreeOid(n) == Pad(<<"e", Hex(n)>>)

\* the k-th commit made in the repository
CommitOid(k) == Pad(<<"b", Hex(k)>>)

BlobObj(n) == [type |-> "blob", tree |-> <<>>, entry |-> 0, content |-> n, parent |-> <<>>]
TreeObj(n) == [type |-> "tree", tree |-> <<>>, entry |-> n, content |-> 0, parent |-> <<>>]
\* a commit of tree t; p: the ids of its parents, oldest history last
CommitObj(t, p) == [type |-> "commit", tree |-> t, entry |-> 0, content |-> 0, parent |-> p]

\* the connections archive requests arrive on, one request at a time each
Slots == {"c1", "c2"}

\* archives built for the cache in one behaviour
MaxBuilds == 2

\* ---------------------------------------------------------------- state

VARIABLES
    objects,            \* object store: oid -> object
    branches,           \* refs/heads: name -> commit oid
    tags,               \* refs/tags: name -> commit oid
    head,               \* the branch HEAD names (symbolic ref)
    index,              \* staging area: content of FileF staged (0: none)
    workdir,            \* working copy: content of FileF on disk (0: no file)
    caseInsensitiveFS,  \* whether the file system ignores case
    last,               \* the most recent call of a git.js function and its result
    req,                \* the raw-content request in flight
    cache,              \* the archive cache directory: file name -> file
    areq,               \* the archive requests in flight, one per connection
    nBuilds,            \* archives built for the cache so far
    served,             \* file name -> the first archive body delivered under it
    xfer,               \* the git transfer request in flight
    probe,              \* the case-sensitivity flag of the process and the calls that read it
    mw                  \* the request passing through the application's middleware

vars == <<objects, branches, tags, head, index, workdir, caseInsensitiveFS, last, req,
          cache, areq, nBuilds, served, xfer, probe, mw>>

arch == <<cache, areq, nBuilds, served>>

aux == <<xfer, probe, mw>>

repo == <<objects, branches, tags, head, index, workdir, caseInsensitiveFS>>

NoCall == [op |-> "none"]
Idle == [pc |-> "idle"]

\* the calls of isCaseInsensitiveFS that can be in flight together
Callers == {"p1", "p2", "p3"}

\* no call of isCaseInsensitiveFS yet: _caseInsensitiveFS is undefined, no
\* stat of the executable's path has been made
NoProbe == [flag |-> "undefined", stats |-> 0, call |-> [p \in Callers |-> Idle]]

nCommits == Cardinality({o \in DOMAIN objects : objects[o].type = "commit"})

Put(f, k, v) == [x \in DOMAIN f \cup {k} |-> IF x = k THEN v ELSE f[x]]

\* the repository right after `git init` (src/test/git_tests.js:26)
Init ==
    /\ objects = <<>>
    /\ branches = <<>>
    /\ tags = <<>>
    /\ head = M
    /\ index = 0
    /\ workdir = 0
    /\ caseInsensitiveFS \in BOOLEAN
    /\ last = NoCall
    /\ req = Idle
    /\ cache = <<>>
    /\ areq = [s \in Slots |-> Idle]
    /\ nBuilds = 0
    /\ served = <<>>
    /\ xfer = Idle
    /\ probe = NoProbe
    /\ mw = Idle

\* ... on a file system that tells upper from lower case
InitCaseSensitive ==
    /\ Init
    /\ ~caseInsensitiveFS

\* ---------------------------------------------------------------- git (the environment)

\* the commit HEAD resolves to, <<>> while the branch it names is unborn
HeadCommit == IF head \in DOMAIN branches THEN branches[head] ELSE <<>>

\* content of FileF in the tree of commit c (0: not in the tree)
EntryOf(c) == IF c = <<>> THEN 0 ELSE objects[objects[c].tree].entry

\* the parents of the next commit: the commit checked out, if any
ParentsOfNext == IF HeadCommit = <<>> THEN <<>> ELSE <<HeadCommit>>

\* an edit of the working file (git_tests.js: shell.touch)
EditFile(n) ==
    /\ last = NoCall
    /\ n = nCommits + 1
    /\ n # workdir
    /\ workdir' = n
    /\ UNCHANGED <<aux, arch, last, objects, branches, tags, head, index, caseInsensitiveFS, req>>

\* the working file is removed from disk
RemoveFile ==
    /\ last = NoCall
    /\ workdir # 0
    /\ workdir' = 0
    /\ UNCHANGED <<aux, arch, last, objects, branches, tags, head, index, caseInsensitiveFS, req>>

\* git add -A: the index takes the state of the working copy
GitAdd ==
    /\ last = NoCall
    /\ index # workdir
    /\ index' = workdir
    /\ objects' = IF workdir = 0 THEN objects ELSE Put(objects, BlobOid(workdir), BlobObj(workdir))
    /\ UNCHANGED <<aux, arch, last, branches, tags, head, workdir, caseInsensitiveFS, req>>

\* git commit: a new commit of the index on the current branch
GitCommit ==
    /\ last = NoCall
    /\ nCommits < MaxCommits
    /\ index # EntryOf(HeadCommit)
    /\ LET c == CommitOid(nCommits + 1)
           t == TreeOid(index)
       IN  /\ objects' = Put(Put(objects, t, TreeObj(index)), c, CommitObj(t, ParentsOfNext))
           /\ branches' = Put(branches, head, c)
    /\ UNCHANGED <<aux, arch, last, tags, head, index, workdir, caseInsensitiveFS, req>>

\* git commit of a change to some other file of the tree: the entry of
\* FileF is the one of the parent (none in a first commit)
GitCommitOther ==
    /\ last = NoCall
    /\ nCommits < MaxCommits
    /\ index = EntryOf(HeadCommit)
    /\ LET c == CommitOid(nCommits + 1)
           t == TreeOid(index)
       IN  /\ objects' = Put(Put(objects, t, TreeObj(index)), c, CommitObj(t, ParentsOfNext))
           /\ branches' = Put(branches, head, c)
    /\ UNCHANGED <<aux, arch, last, tags, head, index, workdir, caseInsensitiveFS, req>>

\* git checkout <branch>: HEAD, index and working copy follow the branch
GitCheckout(b) ==
    /\ last = NoCall
    /\ b \in DOMAIN branches
    /\ b # head
    /\ head' = b
    /\ index' = EntryOf(branches[b])
    /\ workdir' = EntryOf(branches[b])
    /\ UNCHANGED <<aux, arch, last, objects, branches, tags, caseInsensitiveFS, req>>

\* git checkout -b <branch>: a new branch at the current commit
GitCheckoutNew(b) ==
    /\ last = NoCall
    /\ b \in BranchNames \ DOMAIN branches
    /\ HeadCommit # <<>>
    /\ branches' = Put(branches, b, HeadCommit)
    /\ head' = b
    /\ UNCHANGED <<aux, arch, last, objects, tags, index, workdir, caseInsensitiveFS, req>>

\* git push through the transfer handler: a branch that is not checked out
\* is moved to a commit of the store
PushBranch(b, c) ==
    /\ last = NoCall
    /\ b \in DOMAIN branches
    /\ b # head
    /\ c \in DOMAIN objects
    /\ objects[c].type = "commit"
    /\ branches[b] # c
    /\ branches' = [branches EXCEPT ![b] = c]
    /\ UNCHANGED <<aux, arch, last, objects, tags, head, index, workdir, caseInsensitiveFS, req>>

\* git push of a tag through the transfer handler
PushTag(t, c) ==
    /\ last = NoCall
    /\ t \in TagNames
    /\ c \in DOMAIN objects
    /\ objects[c].type = "commit"
    /\ IF t \in DOMAIN tags THEN tags[t] # c ELSE TRUE
    /\ tags' = Put(tags, t, c)
    /\ UNCHANGED <<aux, arch, last, objects, branches, head, index, workdir, caseInsensitiveFS, req>>

\* ---------------------------------------------------------------- isomorphic-git, fs

NONE == "none"

R(e, v) == [err |-> e, val |-> v]

\* isogit.listBranches, isogit.listTags: the names in a fixed order
BranchSeq == <<M, BW>>
TagSeq == <<B>>
listBranches == SelectSeq(BranchSeq, LAMBDA b : b \in DOMAIN branches)
listTags == SelectSeq(TagSeq, LAMBDA t : t \in DOMAIN tags)

\* a well-formed full object id, as isogit.resolveRef tests it
IsFullOid(s) == Len(s) = ShaLen /\ \A i \in 1..Len(s) : s[i] \in HexChars

\* isogit.resolveRef: a full object id is returned as it is, HEAD follows the
\* branch it names, tags are looked up before branches; io: the refs cannot
\* be read (an error other than NotFound)
resolveRef(ref, io) ==
    IF IsFullOid(ref) THEN R(NONE, ref)
    ELSE IF io THEN R("IOError", <<>>)
    ELSE IF ref = HEADNAME
        THEN (IF HeadCommit # <<>> THEN R(NONE, HeadCommit) ELSE R("NotFound", <<>>))
    ELSE IF ref \in DOMAIN tags THEN R(NONE, tags[ref])
    ELSE IF ref \in DOMAIN branches THEN R(NONE, branches[ref])
    ELSE R("NotFound", <<>>)

\* isogit.expandOid: the one object id that starts with the prefix
expandOid(short) ==
    LET found == {o \in DOMAIN objects : StartsWith(o, short)}
    IN  IF found = {} THEN R("NotFound", <<>>)
        ELSE IF Cardinality(found) > 1 THEN R("AmbiguousError", <<>>)
        ELSE R(NONE, CHOOSE o \in found : TRUE)

\* isogit.readObject({ oid }): { oid, type, object }
readObject(oid) ==
    IF oid \in DOMAIN objects
        THEN [err |-> NONE, oid |-> oid, type |-> objects[oid].type, object |-> objects[oid]]
        ELSE [err |-> "NotFound", oid |-> <<>>, type |-> NONE, object |-> BlobObj(0)]

\* isogit.readObject({ oid, filepath }): the id of the entry at filepath in the
\* tree of oid (a commit or a tree)
readObjectAt(oid, filepath) ==
    IF oid \notin DOMAIN objects THEN R("NotFound", <<>>)
    ELSE IF objects[oid].type = "blob" THEN R("ObjectTypeError", <<>>)
    ELSE LET t == IF objects[oid].type = "commit" THEN objects[objects[oid].tree] ELSE objects[oid]
         IN  IF filepath = FileF /\ t.entry # 0 THEN R(NONE, BlobOid(t.entry))
             ELSE R("NotFound", <<>>)

\* isogit.writeBlob: the id of the blob; the store then holds it
writeBlob(n) == BlobOid(n)

Lower(p) == [i \in 1..Len(p) |-> IF p[i] = "F" THEN "f" ELSE p[i]]

\* lstat / readFile: whether the file system finds an entry for path p
FsFinds(p) ==
    /\ workdir # 0
    /\ \/ p = FileF
       \/ caseInsensitiveFS /\ Lower(p) = FileF

\* readdir of the repository directory: the names as spelled on disk
readdir == IF workdir # 0 THEN {FileF} ELSE {}

S_unmodified == <<"u", "n", "m", "o", "d", "i", "f", "i", "e", "d">>
S_modified == <<"m", "o", "d", "i", "f", "i", "e", "d">>
S_added == <<"a", "d", "d", "e", "d">>
S_deleted == <<"d", "e", "l", "e", "t", "e", "d">>
S_absent == <<"a", "b", "s", "e", "n", "t">>
S_undeleted == <<"u", "n", "d", "e", "l", "e", "t", "e", "d">>
S_undeletemodified == <<"u", "n", "d", "e", "l", "e", "t", "e", "m", "o", "d", "i", "f", "i", "e", "d">>
Star(s) == <<"*">> \o s

\* isogit.status({ filepath }): from HEAD tree (H), index (I) and working copy (W)
status(filepath) ==
    LET h == IF filepath = FileF THEN EntryOf(HeadCommit) ELSE 0
        i == IF filepath = FileF THEN index ELSE 0
        w == IF FsFinds(filepath) THEN workdir ELSE 0
    IN  CASE h = 0 /\ w = 0 /\ i = 0 -> S_absent
          [] h = 0 /\ w = 0 /\ i # 0 -> Star(S_absent)
          [] h = 0 /\ w # 0 /\ i = 0 -> Star(S_added)
          [] h = 0 /\ w # 0 /\ i # 0 -> IF w = i THEN S_added ELSE Star(S_added)
          [] h # 0 /\ w = 0 /\ i = 0 -> S_deleted
          [] h # 0 /\ w = 0 /\ i # 0 -> Star(S_deleted)
          [] h # 0 /\ w # 0 /\ i = 0 -> IF w = h THEN Star(S_undeleted) ELSE Star(S_undeletemodified)
          [] h # 0 /\ w # 0 /\ i # 0 ->
                IF w = h THEN (IF w = i THEN S_unmodified ELSE Star(S_unmodified))
                         ELSE (IF w = i THEN S_modified ELSE Star(S_modified))

\* ---------------------------------------------------------------- src/lib/git.js

Concat(a, b) == a \o b

\* Array.prototype.reduce((a, b) => ((b.length > a.length) ? b : a)) without
\* an initial value
RECURSIVE ReduceLongest(_, _)
ReduceLongest(acc, rest) ==
    IF rest = <<>> THEN acc
    ELSE ReduceLongest(IF Len(Head(rest)) > Len(acc) THEN Head(rest) ELSE acc, Tail(rest))

\* the comparison turned round: the shortest match wins
PickShortest(matchingRefs) ==
    LET RECURSIVE f(_, _)
        f(acc, rest) ==
            IF rest = <<>> THEN acc
            ELSE f(IF Len(Head(rest)) < Len(acc) THEN Head(rest) ELSE acc, Tail(rest))
    IN  f(Head(matchingRefs), Tail(matchingRefs))

PickLongest(matchingRefs) == ReduceLongest(Head(matchingRefs), Tail(matchingRefs))

\* the refs determineRefPathName considers
AllRefs == Concat(listBranches, listTags)

RefMatches(refPathName, ref) == StartsWith(refPathName, ref \o <<"/">>)

\* the separating "/" skipped as well
RestAfterSlash(refPathName, matchingRef) == Substr(refPathName, Len(matchingRef) + 1)

RestOf(refPathName, matchingRef) == Substr(refPathName, Len(matchingRef))

determineRefPathName(refPathName) ==
    LET refs == AllRefs
        matchingRefs == SelectSeq(refs, LAMBDA ref : RefMatches(refPathName, ref))
    IN  IF Len(matchingRefs) = 0
            THEN [defined |-> FALSE, ref |-> <<>>, pathName |-> <<>>]
            ELSE LET matchingRef == PickLongest(matchingRefs)
                 IN  [defined |-> TRUE, ref |-> matchingRef,
                      pathName |-> RestOf(refPathName, matchingRef)]

\* the error of the expansion thrown in place of the lookup's
ThrowInner(err, inner) == inner

\* catch { throw err } (git.js:87-89): the error of the first lookup
ThrowOriginal(err, inner) == err

\* no fallback: a lookup that fails is the result
FallbackNever(err) == FALSE

\* err instanceof isogit.Errors.NotFoundError (git.js:82)
FallbackOn(err) == err = "NotFound"

\* resolveCommit; expanded records whether isogit.expandOid was called
resolveCommit(ref, io) ==
    LET direct == resolveRef(ref, io)
    IN  IF direct.err = NONE
            THEN [err |-> NONE, val |-> direct.val, expanded |-> FALSE]
        ELSE IF FallbackOn(direct.err)
            THEN LET oid == expandOid(ref)
                 IN  IF oid.err = NONE
                        THEN [err |-> NONE, val |-> resolveRef(oid.val, io).val, expanded |-> TRUE]
                        ELSE [err |-> ThrowOriginal(direct.err, oid.err), val |-> <<>>, expanded |-> TRUE]
        ELSE [err |-> direct.err, val |-> <<>>, expanded |-> FALSE]

\* only NotFound is caught, any other error leaves the function
CaughtIfNotFound(err) ==
    IF err = "NotFound" THEN [err |-> NONE, val |-> FALSE] ELSE [err |-> err, val |-> FALSE]

\* catch (e) { return false } (git.js:64-66)
Caught(err) == [err |-> NONE, val |-> FALSE]

isCheckedOut(ref, io) ==
    LET oidCurrent == resolveRef(HEADNAME, io)
    IN  IF oidCurrent.err # NONE THEN Caught(oidCurrent.err)
        ELSE LET oid == resolveRef(ref, io)
             IN  IF oid.err # NONE THEN Caught(oid.err)
                 ELSE [err |-> NONE, val |-> (oidCurrent.val = oid.val)]

\* str.match(/[0-9a-f]/g).length
CountHex(str) == Cardinality({i \in 1..Len(str) : str[i] \in HexChars})

isValidSha(str) == Len(str) = ShaLen /\ CountHex(str) = ShaLen

NoObj == [err |-> NONE, oid |-> <<>>, type |-> NONE, object |-> BlobObj(0)]

\* the commit itself in place of its tree
CommitItself(obj) == obj

\* isogit.readObject({ oid: obj.object.tree }) (git.js:225)
TreeOfCommit(obj) == readObject(obj.object.tree)

\* resolveTree; lookedUp and expanded record whether isogit.resolveRef and
\* isogit.expandOid were called
resolveTree(refOrSha, io) ==
    LET direct == resolveRef(refOrSha, io)
        short == expandOid(refOrSha)
        found ==
            IF isValidSha(refOrSha)
                THEN [err |-> NONE, oid |-> refOrSha, lookedUp |-> FALSE, expanded |-> FALSE]
            ELSE IF direct.err = NONE
                THEN [err |-> NONE, oid |-> direct.val, lookedUp |-> TRUE, expanded |-> FALSE]
            ELSE IF direct.err = "NotFound"
                THEN (IF short.err = NONE
                        THEN [err |-> NONE, oid |-> short.val, lookedUp |-> TRUE, expanded |-> TRUE]
                        ELSE [err |-> direct.err, oid |-> <<>>, lookedUp |-> TRUE, expanded |-> TRUE])
            ELSE [err |-> direct.err, oid |-> <<>>, lookedUp |-> TRUE, expanded |-> FALSE]
        obj == readObject(found.oid)
        res(e, o) == [err |-> e, obj |-> o, lookedUp |-> found.lookedUp, expanded |-> found.expanded]
    IN  IF found.err # NONE THEN res(found.err, NoObj)
        ELSE IF obj.err # NONE THEN res(obj.err, NoObj)
        ELSE IF obj.type = "tree" THEN res(NONE, obj)
        ELSE IF obj.type = "commit" THEN
            LET t == TreeOfCommit(obj)
            IN  IF t.err # NONE THEN res(t.err, NoObj) ELSE res(NONE, t)
        ELSE res("ObjectTypeError", NoObj)

\* src/lib/core/utils.js
isCaseInsensitiveFS == caseInsensitiveFS

\* pathToTest.split('/').filter((el) => el !== '') for a path of one segment
SplitNames(pathToTest) ==
    LET nm == SelectSeq(pathToTest, LAMBDA ch : ch # "/")
    IN  IF nm = <<>> THEN <<>> ELSE <<nm>>

\* whatever the file system finds, in any spelling
pathExistsAnyCase(pathToTest) == FsFinds(pathToTest)

pathExists(pathToTest) ==
    IF ~isCaseInsensitiveFS THEN FsFinds(pathToTest)
    ELSE \A i \in 1..Len(SplitNames(pathToTest)) : SplitNames(pathToTest)[i] \in readdir

\* what resolveBlob does with a working-copy status (git.js:120-130):
\* committed, notfound, exists (check that the path exists first) or read
StatusDecision(st) ==
    IF EndsWith(st, S_unmodified) THEN "committed"
    ELSE IF EndsWith(st, S_absent) \/ EndsWith(st, S_deleted) THEN "notfound"
    ELSE IF EndsWith(st, S_added) THEN "exists"
    ELSE "read"

\* result of resolveBlob: the blob id or the error, and what it did on the
\* way: read the working file (content read, 0: none), wrote a blob
BlobRes(e, v, rd, wr) == [err |-> e, val |-> v, read |-> rd, wrote |-> wr]

\* the working copy consulted whatever the flag says
IncludeAlways(includeUncommitted) == TRUE

\* if (!includeUncommitted) (git.js:115)
IncludeUncommitted(includeUncommitted) == includeUncommitted

\* the staged bytes in place of the bytes on disk
ReadStaged(pathName) == index

\* fse.readFile(resolvePath(dir, pathName)) (git.js:132): the bytes of the
\* working file (0: no such file)
ReadFile(pathName) == IF FsFinds(pathName) THEN workdir ELSE 0

resolveBlob(ref, pathName, includeUncommitted) ==
    LET commit == resolveCommit(ref, FALSE)
        committed == readObjectAt(commit.val, pathName)
        decision == StatusDecision(status(pathName))
        content == ReadFile(pathName)
        readIt == IF content # 0
                    THEN BlobRes(NONE, writeBlob(content), content, TRUE)
                    ELSE BlobRes("ENOENT", <<>>, 0, FALSE)
    IN  IF commit.err # NONE THEN BlobRes(commit.err, <<>>, 0, FALSE)
        ELSE IF ~IncludeUncommitted(includeUncommitted)
            THEN BlobRes(committed.err, committed.val, 0, FALSE)
        ELSE IF decision = "committed" THEN BlobRes(committed.err, committed.val, 0, FALSE)
        ELSE IF decision = "notfound" THEN BlobRes("NotFound", <<>>, 0, FALSE)
        ELSE IF decision = "exists" /\ ~pathExists(pathName) THEN BlobRes("NotFound", <<>>, 0, FALSE)
        ELSE readIt

\* getRawContent / createBlobReadStream: the bytes of the blob oid, read from
\* the object store
ReadBlobFrom(store, oid) ==
    IF oid \notin DOMAIN store THEN [err |-> "NotFound", content |-> 0]
    ELSE [err |-> NONE, content |-> store[oid].content]

blobContent(oid) == ReadBlobFrom(objects, oid)

\* ---------------------------------------------------------------- calls of git.js

Unknown == <<"x">>
\* 40 characters, not all of them hexadecimal
NotASha == Pad(<<"b", "x">>)

Abbrev(oid) == SubSeq(oid, 1, 2)

CommitIds == {CommitOid(k) : k \in 1..MaxCommits}

\* refs, full and abbreviated commit ids, an ambiguous prefix, an unknown name
RefInputs == {M, BW, B, Unknown, <<"b">>} \cup CommitIds \cup {Abbrev(c) : c \in CommitIds}

\* ... and tree and blob ids, full and abbreviated, and a malformed id
TreeInputs == RefInputs \cup {TreeOid(1), Abbrev(TreeOid(1)), BlobOid(1), Abbrev(BlobOid(1)), NotASha}

\* the refs resolveBlob is called with
BlobRefInputs == {M, BW, Unknown, CommitOid(1)}

PathInputs == {FileF, FileUpperF}

\* `<ref>/<path>` url segments
RefPathInputs ==
    {r \o <<"/">> \o q : r \in {M, B, BW, Unknown}, q \in {FileF, <<"/", "f">>, <<"w", "/", "f">>}}
        \cup {M, BW}

CallDetermineRefPathName(s) ==
    /\ req = Idle
    /\ last = NoCall
    /\ s \in RefPathInputs
    /\ last' = [op |-> "determineRefPathName", arg |-> s, res |-> determineRefPathName(s)]
    /\ UNCHANGED <<aux, arch, repo, req>>

CallResolveCommit(ref, io) ==
    /\ req = Idle
    /\ last = NoCall
    /\ ref \in RefInputs
    /\ io \in BOOLEAN
    /\ last' = [op |-> "resolveCommit", arg |-> ref, io |-> io, res |-> resolveCommit(ref, io)]
    /\ UNCHANGED <<aux, arch, repo, req>>

CallResolveTree(x, io) ==
    /\ req = Idle
    /\ last = NoCall
    /\ x \in TreeInputs
    /\ io \in BOOLEAN
    /\ last' = [op |-> "resolveTree", arg |-> x, io |-> io, res |-> resolveTree(x, io)]
    /\ UNCHANGED <<aux, arch, repo, req>>

CallIsCheckedOut(ref, io) ==
    /\ req = Idle
    /\ last = NoCall
    /\ ref \in RefInputs
    /\ io \in BOOLEAN
    /\ last' = [op |-> "isCheckedOut", arg |-> ref, io |-> io, res |-> isCheckedOut(ref, io)]
    /\ UNCHANGED <<aux, arch, repo, req>>

\* resolveBlob, and getRawContent's read of the blob it returned; before is
\* the repository the call found
CallResolveBlob(ref, pathName, inc) ==
    /\ req = Idle
    /\ last = NoCall
    /\ ref \in BlobRefInputs
    /\ pathName \in PathInputs
    /\ inc \in BOOLEAN
    /\ LET res == resolveBlob(ref, pathName, inc)
           store == IF res.wrote THEN Put(objects, res.val, BlobObj(res.read)) ELSE objects
       IN  /\ objects' = store
           /\ last' = [op |-> "resolveBlob", arg |-> ref, path |-> pathName, inc |-> inc,
                       res |-> res,
                       before |-> [objects |-> objects, branches |-> branches, tags |-> tags, head |-> head],
                       content |-> IF res.err = NONE THEN ReadBlobFrom(store, res.val)
                                   ELSE [err |-> res.err, content |-> 0]]
    /\ UNCHANGED <<aux, arch, branches, tags, head, index, workdir, caseInsensitiveFS, req>>

\* ---------------------------------------------------------------- src/lib/handlers/rawHandler.js

\* path.normalize on a path without "." segments: runs of "/" become one "/"
RECURSIVE Normalize(_)
Normalize(q) ==
    IF Len(q) < 2 THEN q
    ELSE IF q[1] = "/" /\ q[2] = "/" THEN Normalize(Tail(q))
    ELSE <<q[1]>> \o Normalize(Tail(q))

\* .replace(/^\/+/, '')
RECURSIVE StripLeadingSlashes(_)
StripLeadingSlashes(q) ==
    IF q # <<>> /\ q[1] = "/" THEN StripLeadingSlashes(Tail(q)) ELSE q

\* the ref/path parsing stage (rawHandler.js:27-40)
ParseRefPath(refParam, pathParam) ==
    LET parsed == determineRefPathName(refParam \o <<"/">> \o pathParam)
        refName == IF parsed.defined THEN parsed.ref ELSE refParam
        fpath == IF parsed.defined THEN parsed.pathName ELSE pathParam
    IN  [refName |-> refName, fpath |-> StripLeadingSlashes(Normalize(fpath))]

\* :ref is one url segment, :path the rest
ReqRefs == {M, B}
ReqPaths == {FileF, <<"/", "f">>, <<"w", "/", "f">>}

\* the error stage (rawHandler.js:69-84)
StatusOfError(e) == IF e = "NotFound" THEN 404 ELSE 500

Respond(r, code, oid, body) ==
    [pc |-> "done", refName |-> r.refName, fpath |-> r.fpath, status |-> code,
     etag |-> oid, body |-> body, live |-> r.live, coAtRead |-> r.coAtRead]

Step(r, pc) == [r EXCEPT !.pc = pc]

\* a request arrives and is parsed
RawParse(refParam, pathParam) ==
    /\ req = Idle
    /\ last = NoCall
    /\ refParam \in ReqRefs
    /\ pathParam \in ReqPaths
    /\ LET parsed == ParseRefPath(refParam, pathParam)
       IN  req' = [pc |-> "head", refName |-> parsed.refName, fpath |-> parsed.fpath,
                   oidCurrent |-> <<>>, serveUncommitted |-> FALSE, commitSha |-> <<>>,
                   oid |-> <<>>, live |-> FALSE, coAtRead |-> FALSE]
    /\ UNCHANGED <<aux, arch, repo, last>>

\* isCheckedOut: HEAD is resolved (git.js:60)
RawHead ==
    /\ req.pc = "head"
    /\ LET oidCurrent == resolveRef(HEADNAME, FALSE)
       IN  req' = IF oidCurrent.err # NONE
                    THEN Step(req, "commit")
                    ELSE [req EXCEPT !.pc = "ref", !.oidCurrent = oidCurrent.val]
    /\ UNCHANGED <<aux, arch, repo, last>>

\* isCheckedOut: the ref is resolved and compared (git.js:61-62)
RawRef ==
    /\ req.pc = "ref"
    /\ LET oid == resolveRef(req.refName, FALSE)
       IN  req' = [req EXCEPT !.pc = "commit", !.oidCurrent = <<>>,
                              !.serveUncommitted = (oid.err = NONE /\ req.oidCurrent = oid.val)]
    /\ UNCHANGED <<aux, arch, repo, last>>

\* the committed blob id is the answer (git.js:116, 121)
Committed(r, commitSha) ==
    LET blob == readObjectAt(commitSha, r.fpath)
    IN  IF blob.err # NONE THEN Respond(r, StatusOfError(blob.err), <<>>, 0)
        ELSE [r EXCEPT !.pc = "stream", !.oid = blob.val, !.commitSha = <<>>]

\* resolveBlob: the commit is resolved (git.js:108-117)
RawCommit ==
    /\ req.pc = "commit"
    /\ LET commit == resolveCommit(req.refName, FALSE)
       IN  req' = IF commit.err # NONE THEN Respond(req, StatusOfError(commit.err), <<>>, 0)
                  ELSE IF ~req.serveUncommitted THEN Committed(req, commit.val)
                  ELSE [req EXCEPT !.pc = "status", !.commitSha = commit.val]
    /\ UNCHANGED <<aux, arch, repo, last>>

\* resolveBlob: the working-copy status decides (git.js:119-127)
RawStatus ==
    /\ req.pc = "status"
    /\ LET decision == StatusDecision(status(req.fpath))
       IN  req' = CASE decision = "committed" -> Committed(req, req.commitSha)
                    [] decision = "notfound" -> Respond(req, StatusOfError("NotFound"), <<>>, 0)
                    [] decision = "exists" -> [req EXCEPT !.pc = "exists", !.commitSha = <<>>]
                    [] OTHER -> [req EXCEPT !.pc = "read", !.commitSha = <<>>]
    /\ UNCHANGED <<aux, arch, repo, last>>

\* resolveBlob: an added path must exist on disk (git.js:128-130)
RawExists ==
    /\ req.pc = "exists"
    /\ req' = IF ~pathExists(req.fpath) THEN Respond(req, StatusOfError("NotFound"), <<>>, 0)
              ELSE Step(req, "read")
    /\ UNCHANGED <<aux, arch, repo, last>>

\* resolveBlob: the working file is read and written as a blob (git.js:132-133);
\* coAtRead notes whether the ref is checked out at this moment
RawRead ==
    /\ req.pc = "read"
    /\ IF ReadFile(req.fpath) # 0
        THEN /\ objects' = Put(objects, writeBlob(ReadFile(req.fpath)), BlobObj(ReadFile(req.fpath)))
             /\ req' = [req EXCEPT !.pc = "stream", !.oid = writeBlob(ReadFile(req.fpath)), !.live = TRUE,
                                   !.coAtRead = isCheckedOut(req.refName, FALSE).val]
        ELSE /\ req' = Respond(req, StatusOfError("ENOENT"), <<>>, 0)
             /\ UNCHANGED objects
    /\ UNCHANGED <<aux, arch, branches, tags, head, index, workdir, caseInsensitiveFS, last>>

\* the blob is streamed as the response (rawHandler.js:93-102)
RawStream ==
    /\ req.pc = "stream"
    /\ LET blob == blobContent(req.oid)
       IN  req' = IF blob.err # NONE THEN Respond(req, StatusOfError(blob.err), <<>>, 0)
                  ELSE Respond(req, 200, req.oid, blob.content)
    /\ UNCHANGED <<aux, arch, repo, last>>

\* the response is sent
RawDone ==
    /\ req.pc = "done"
    /\ req' = Idle
    /\ UNCHANGED <<aux, arch, repo, last>>

\* the call returns to its caller
CallReturn ==
    /\ last # NoCall
    /\ last' = NoCall
    /\ UNCHANGED <<aux, arch, repo, req>>

\* ---------------------------------------------------------------- koa, errors

\* a value a handler assigns to ctx.status: a number or a string
Num(n) == [isNum |-> TRUE, n |-> n, s |-> ""]
Str(x) == [isNum |-> FALSE, n |-> 0, s |-> x]

\* the fields of a thrown error the handlers read; 0: undefined. The errors of
\* isomorphic-git carry their name as code, those of fs an errno name.
ErrorObject(e) ==
    [name |-> e, statusCode |-> 0, status |-> 0,
     code |-> IF e = "NotFound" THEN "NotFoundError" ELSE e]

\* koa's answer to an error that leaves the middleware chain
DefaultStatus(e) == IF ErrorObject(e).code = "ENOENT" THEN 404 ELSE 500

\* ctx.status = v: koa takes an integer of 100..999 and throws on anything
\* else; the error thrown leaves the chain
SetStatus(v) == IF v.isNum /\ v.n >= 100 /\ v.n <= 999 THEN v.n ELSE DefaultStatus("ERR_ASSERTION")

\* ---------------------------------------------------------------- archive handler

SNAPSHOT == <<"S", "N", "A", "P", "S", "H", "O", "T">>
Formats == {"zip", "tar.gz"}
ArchRefs == {M, Unknown}

\* nothing delivered
NoBody == [kind |-> "none", entry |-> 0, build |-> 0]
\* a complete archive of the tree holding `entry`, from build number `build`
\* (0: built from the working directory, never stored)
Archive(entry, build) == [kind |-> "archive", entry |-> entry, build |-> build]
\* the bytes of a file that is not a finished archive
Partial == [kind |-> "partial", entry |-> 0, build |-> 0]

\* a file of the cache directory: the requests writing to it and the archive
\* the last finished write left (NoBody: none)
CacheFile(writers, bytes) == [writers |-> writers, bytes |-> bytes]

\* the file holds one finished archive and nothing else
Finalized(f) == f.writers = {} /\ f.bytes.kind = "archive"

\* fse.createReadStream: the bytes a reader gets from the file
ReadStream(f) == IF Finalized(f) THEN f.bytes ELSE Partial

\* the archive is always stored
DontCacheNever(serveUncommitted) == FALSE

\* if (serveUncommitted) { // don't cache (archiveHandler.js:212)
DontCache(serveUncommitted) == serveUncommitted

\* !serveUncommitted && await fse.pathExists(archiveFilePath) (archiveHandler.js:188)
UseCached(serveUncommitted, exists) == ~serveUncommitted /\ exists

\* archiveFileName without the owner and repository it starts with
\* (archiveHandler.js:162)
ArchiveFileName(serveUncommitted, commitSha, fmt) ==
    [id |-> IF serveUncommitted THEN SNAPSHOT ELSE commitSha,
     ext |-> IF fmt = "zip" THEN ".zip" ELSE ".tgz"]

\* err.statusCode || err.code || 500 (archiveHandler.js:149)
ArchiveErrorStatus(e) ==
    LET err == ErrorObject(e)
    IN  IF err.statusCode # 0 THEN Num(err.statusCode)
        ELSE IF err.code # "" THEN Str(err.code)
        ELSE Num(500)

\* the request as the first stages leave it in ctx.store
\* (archiveHandler.js:164-173); prior: a response under this file name was
\* complete when the request arrived
NewArchReq(ref, fmt, su, commitSha) ==
    [pc |-> "cache", ref |-> ref, fmt |-> fmt, serveUncommitted |-> su,
     commitSha |-> commitSha, name |-> ArchiveFileName(su, commitSha, fmt),
     status |-> 0, body |-> NoBody,
     hit |-> FALSE, objectsRead |-> FALSE, treeWalked |-> FALSE, wrote |-> FALSE,
     notFound |-> FALSE, build |-> 0,
     prior |-> ArchiveFileName(su, commitSha, fmt) \in DOMAIN served]

\* the request whose ref did not resolve
FailedArchReq(ref, fmt, su, e) ==
    [NewArchReq(ref, fmt, su, <<>>) EXCEPT !.notFound = (e = "NotFound"), !.prior = FALSE]

\* the response is complete
ArchRespond(s, r, code, body) ==
    /\ areq' = [areq EXCEPT ![s] = [r EXCEPT !.pc = "done", !.status = code, !.body = body]]
    /\ served' = IF code = 200 /\ r.name \notin DOMAIN served
                    THEN Put(served, r.name, body)
                    ELSE served

\* the error stage (archiveHandler.js:144-152)
ArchFail(s, r, e) == ArchRespond(s, r, SetStatus(ArchiveErrorStatus(e)), NoBody)

\* a request arrives on a free connection: isCheckedOut, resolveCommit, the
\* file name and the response headers (archiveHandler.js:153-183)
ArchStart(s, ref, fmt) ==
    /\ areq[s].pc \in {"idle", "done"}
    /\ last = NoCall
    /\ LET su == isCheckedOut(ref, FALSE).val
           c == resolveCommit(ref, FALSE)
       IN  IF c.err # NONE
               THEN ArchFail(s, FailedArchReq(ref, fmt, su, c.err), c.err)
               ELSE /\ areq' = [areq EXCEPT ![s] = NewArchReq(ref, fmt, su, c.val)]
                    /\ UNCHANGED served
    /\ UNCHANGED <<aux, repo, last, req, cache, nBuilds>>

\* the cache check; on a miss ensureDir, then the commit and its tree are
\* read (archiveHandler.js:185-206)
ArchCache(s) ==
    /\ areq[s].pc = "cache"
    /\ LET r == areq[s]
       IN  IF UseCached(r.serveUncommitted, r.name \in DOMAIN cache)
               THEN ArchRespond(s, [r EXCEPT !.hit = TRUE], 200, ReadStream(cache[r.name]))
               ELSE /\ areq' = [areq EXCEPT ![s] = [r EXCEPT !.pc = "build", !.objectsRead = TRUE]]
                    /\ UNCHANGED served
    /\ UNCHANGED <<aux, repo, last, req, cache, nBuilds>>

\* the archive is built: of the working directory, delivered as it is, or of
\* the git tree, piped into the cache file (archiveHandler.js:207-221)
ArchBuild(s) ==
    /\ areq[s].pc = "build"
    /\ LET r == areq[s]
       IN  IF DontCache(r.serveUncommitted)
               THEN /\ ArchRespond(s, r, 200, Archive(workdir, 0))
                    /\ UNCHANGED <<cache, nBuilds>>
               ELSE /\ nBuilds < MaxBuilds
                    /\ nBuilds' = nBuilds + 1
                    /\ cache' = Put(cache, r.name,
                            CacheFile((IF r.name \in DOMAIN cache THEN cache[r.name].writers ELSE {}) \cup {s},
                                      NoBody))
                    /\ areq' = [areq EXCEPT ![s] =
                            [r EXCEPT !.pc = "writing", !.treeWalked = TRUE, !.wrote = TRUE,
                                      !.build = nBuilds + 1]]
                    /\ UNCHANGED served
    /\ UNCHANGED <<aux, repo, last, req>>

\* the write stream reports 'finish': the file is read back (archiveHandler.js:222)
ArchFinish(s) ==
    /\ areq[s].pc = "writing"
    /\ LET r == areq[s]
           f == CacheFile(cache[r.name].writers \ {s}, Archive(EntryOf(r.commitSha), r.build))
       IN  /\ cache' = [cache EXCEPT ![r.name] = f]
           /\ ArchRespond(s, r, 200, ReadStream(f))
    /\ UNCHANGED <<aux, repo, last, req, nBuilds>>

\* the write stream reports 'error': the promise is rejected, the file stays
\* as far as it was written (archiveHandler.js:223)
ArchWriteError(s) ==
    /\ areq[s].pc = "writing"
    /\ LET r == areq[s]
       IN  /\ cache' = [cache EXCEPT ![r.name] = CacheFile(cache[r.name].writers \ {s}, NoBody)]
           /\ ArchFail(s, r, "ENOSPC")
    /\ UNCHANGED <<aux, repo, last, req, nBuilds>>

\* ---------------------------------------------------------------- commit log

\* the commits from oid back along the first parents, newest first
RECURSIVE Walk(_)
Walk(oid) ==
    IF oid \notin DOMAIN objects THEN <<>>
    ELSE IF objects[oid].parent = <<>> THEN <<oid>>
    ELSE <<oid>> \o Walk(objects[oid].parent[1])

\* isogit.log: the history of the commit the ref resolves to
log(ref, io) ==
    LET r == resolveRef(ref, io)
    IN  IF r.err # NONE THEN R(r.err, <<>>)
        ELSE IF r.val \notin DOMAIN objects THEN R("NotFound", <<>>)
        ELSE IF objects[r.val].type # "commit" THEN R("ObjectTypeError", <<>>)
        ELSE R(NONE, Walk(r.val))

\* the oldest commit is not told from the others
IsOldestNever(i, n) == FALSE

\* i === commits.length - 1 (git.js:264), positions counted from 1
IsOldest(i, n) == i = n

\* if (lastCommit) (git.js:276): null is falsy
TruthyNever(x) == FALSE
TruthyAlways(x) == TRUE
Truthy(x) == x # <<>>

\* the loop of git.js:259-283 from position i on; <<>> stands for null
RECURSIVE FilterLoop(_, _, _, _, _, _)
FilterLoop(commits, path, i, lastSHA, lastCommit, filteredCommits) ==
    IF i > Len(commits) THEN filteredCommits
    ELSE LET c == commits[i]
             o == readObjectAt(c, path)
         IN  IF o.err # NONE
                 THEN (IF Truthy(lastCommit) THEN Append(filteredCommits, lastCommit)
                                             ELSE filteredCommits)
             ELSE IF IsOldest(i, Len(commits)) THEN Append(filteredCommits, c)
             ELSE IF o.val # lastSHA
                 THEN FilterLoop(commits, path, i + 1, o.val, c,
                        IF lastSHA # <<>> THEN Append(filteredCommits, lastCommit)
                                          ELSE filteredCommits)
             ELSE FilterLoop(commits, path, i + 1, lastSHA, c, filteredCommits)

\* the commits the loop reads the path in, from position i on
RECURSIVE ReadsOfLoop(_, _, _)
ReadsOfLoop(commits, path, i) ==
    IF i > Len(commits) THEN <<>>
    ELSE IF readObjectAt(commits[i], path).err # NONE \/ IsOldest(i, Len(commits))
        THEN <<commits[i]>>
    ELSE <<commits[i]>> \o ReadsOfLoop(commits, path, i + 1)

\* commitLog (git.js:237-289): the ids of the commits returned
commitLog(ref, path, io) ==
    LET first == log(ref, io)
        commits ==
            IF first.err = "NotFound"
                THEN LET oid == expandOid(ref)
                     IN  IF oid.err # NONE THEN first ELSE log(oid.val, io)
                ELSE first
    IN  IF commits.err # NONE THEN commits
        ELSE IF Len(path) > 0
            THEN R(NONE, FilterLoop(commits.val, path, 1, <<>>, <<>>, <<>>))
        ELSE commits

\* the entries FileF can have along a history, oldest first (0: not in the tree)
Histories == UNION {[1..n -> 0..2] : n \in 1..MaxChain}

\* git clone of a repository with such a history on master: commit k has
\* commit k - 1 as its parent, the working copy is the newest commit's
GitClone(entries) ==
    /\ last = NoCall
    /\ objects = <<>>
    /\ head = M
    /\ index = 0
    /\ workdir = 0
    /\ LET n == Len(entries)
           used == {entries[k] : k \in 1..n}
       IN  /\ objects' =
                [oid \in {CommitOid(k) : k \in 1..n} \cup {TreeOid(e) : e \in used}
                        \cup {BlobOid(e) : e \in used \ {0}} |->
                    IF \E k \in 1..n : oid = CommitOid(k)
                        THEN LET k == CHOOSE j \in 1..n : oid = CommitOid(j)
                             IN  CommitObj(TreeOid(entries[k]),
                                           IF k = 1 THEN <<>> ELSE <<CommitOid(k - 1)>>)
                    ELSE IF \E e \in used : oid = TreeOid(e)
                        THEN TreeObj(CHOOSE e \in used : oid = TreeOid(e))
                    ELSE BlobObj(CHOOSE e \in used : oid = BlobOid(e))]
           /\ branches' = Put(branches, M, CommitOid(n))
           /\ index' = entries[n]
           /\ workdir' = entries[n]
    /\ UNCHANGED <<aux, arch, last, tags, head, caseInsensitiveFS, req>>

\* a path no tree holds
FileG == <<"g">>
LogRefInputs == {M, BW, Unknown}
LogPathInputs == {<<>>, FileF, FileG}

CallCommitLog(ref, path, io) ==
    /\ req = Idle
    /\ last = NoCall
    /\ last' = [op |-> "commitLog", arg |-> ref, path |-> path, io |-> io,
                res |-> commitLog(ref, path, io)]
    /\ UNCHANGED <<aux, arch, repo, req>>

\* ---------------------------------------------------------------- api handlers

\* err instanceof NotFoundError
InstanceOfNotFoundAlways(e) == TRUE
InstanceOfNotFound(e) == e = "NotFound"

\* an identifier evaluates in a function only if the function, or one around
\* it, binds it; otherwise the evaluation throws a ReferenceError
Bound(id, scope) == id \in scope

\* the error stage of the blob and tree handlers (blobHandler.js:35-53,
\* treeHandler.js:30-48)
ApiErrorStatus(e) ==
    IF InstanceOfNotFound(e) THEN SetStatus(Num(404))
    ELSE LET err == ErrorObject(e)
         IN  SetStatus(Num(IF err.statusCode # 0 THEN err.statusCode
                           ELSE IF err.status # 0 THEN err.status ELSE 500))

\* an error a handler throws on, or does not catch: koa answers it
Uncaught(e) == DefaultStatus(e)

\* sha.match(/[0-9a-f]/g): the matches, null (0 here, with isNull) if there are none
Match(str) == [isNull |-> CountHex(str) = 0, length |-> CountHex(str)]

\* an answer: status, the error that was thrown on the way (NONE: none),
\* whether an object read or a commit log was started, and the body
Answer(code, thrown, started, body) ==
    [status |-> code, thrown |-> thrown, started |-> started, body |-> body]

\* GET /api/repos/:owner/:repo/git/blobs/:file_sha (blobHandler.js:11-65)
blobHandler(sha) ==
    IF Match(sha).isNull THEN Answer(Uncaught("TypeError"), "TypeError", FALSE, <<>>)
    ELSE IF Match(sha).length # ShaLen THEN Answer(SetStatus(Num(422)), NONE, FALSE, <<>>)
    ELSE LET o == readObject(sha)
         IN  IF o.err # NONE THEN Answer(ApiErrorStatus(o.err), o.err, TRUE, <<>>)
             ELSE Answer(200, NONE, TRUE, <<sha>>)

\* GET /api/repos/:owner/:repo/git/trees/:ref_or_sha (treeHandler.js:12-93)
treeHandler(refOrSha, io) ==
    LET t == resolveTree(refOrSha, io)
    IN  IF t.err # NONE THEN Answer(ApiErrorStatus(t.err), t.err, TRUE, <<>>)
        ELSE Answer(200, NONE, TRUE, <<t.obj.oid>>)

\* the names the function of commitHandler.js:23-124 can evaluate
CommitHandlerScope ==
    {"ctx", "next", "options", "owner", "repoName", "sha", "fpath", "repPath",
     "commits", "host", "result", "parents", "commit", "oid", "err"}

\* commit.parent.forEach(...): one link per parent; the callback evaluates
\* req (commitHandler.js:59-63)
ParentLinks(c) ==
    IF objects[c].parent = <<>> THEN R(NONE, <<>>)
    ELSE IF Bound("req", CommitHandlerScope) THEN R(NONE, objects[c].parent)
    ELSE R("ReferenceError", <<>>)

\* commits.forEach(...): one summary per commit, in order
RECURSIVE Summaries(_)
Summaries(commits) ==
    IF commits = <<>> THEN R(NONE, <<>>)
    ELSE LET parents == ParentLinks(Head(commits))
             rest == Summaries(Tail(commits))
         IN  IF parents.err # NONE THEN parents
             ELSE IF rest.err # NONE THEN rest
             ELSE R(NONE, <<[sha |-> Head(commits), parents |-> parents.val]>> \o rest.val)

\* catch of commitHandler.js:110-123
CommitErrorStatus(e) == IF InstanceOfNotFound(e) THEN SetStatus(Num(404)) ELSE Uncaught(e)

\* GET /api/repos/:owner/:repo/commits?sha=&path= (commitHandler.js:23-124);
\* isString: the path parameter was given once
commitHandler(sha, fpath, isString, io) ==
    IF ~isString
        THEN (IF Bound("res", CommitHandlerScope)
                THEN Answer(400, NONE, FALSE, <<>>)
                ELSE Answer(Uncaught("ReferenceError"), "ReferenceError", FALSE, <<>>))
    ELSE LET commits == commitLog(sha, StripLeadingSlashes(fpath), io)
         IN  IF commits.err # NONE
                 THEN Answer(CommitErrorStatus(commits.err), commits.err, TRUE, <<>>)
             ELSE LET result == Summaries(commits.val)
                  IN  IF result.err # NONE
                          THEN Answer(CommitErrorStatus(result.err), result.err, TRUE, <<>>)
                          ELSE Answer(200, NONE, TRUE, result.val)

\* the names the error stage of contentHandler.js:37-55 can evaluate
ContentErrorScope == {"ctx", "next", "options", "err"}

\* the error stage of the contents handler (contentHandler.js:37-55)
ContentError(e) ==
    IF InstanceOfNotFound(e)
        THEN (IF Bound("refName", ContentErrorScope)
                THEN Answer(SetStatus(Num(404)), e, TRUE, <<"refName">>)
                ELSE Answer(Uncaught("ReferenceError"), e, TRUE, <<>>))
        ELSE Answer(SetStatus(Num(500)), e, TRUE, <<>>)

\* GET /api/repos/:owner/:repo/contents:path?ref= (contentHandler.js:18-121);
\* the body of a 404 names the ref with <<"refName">>
contentHandler(refName, path) ==
    LET commitOid == resolveCommit(refName, FALSE)
        fpath == StripLeadingSlashes(path)
    IN  IF commitOid.err # NONE THEN ContentError(commitOid.err)
        ELSE LET o == readObjectAt(commitOid.val, fpath)
             IN  IF o.err # NONE THEN ContentError(o.err)
                 ELSE Answer(200, NONE, TRUE, <<o.val>>)

\* GET /raw/:owner/:repo/:ref/:path, all stages in one step
\* (rawHandler.js:19-103)
rawHandler(refParam, pathParam) ==
    LET parsed == ParseRefPath(refParam, pathParam)
        serveUncommitted == isCheckedOut(parsed.refName, FALSE).val
        oid == resolveBlob(parsed.refName, parsed.fpath, serveUncommitted)
    IN  IF oid.err # NONE THEN Answer(StatusOfError(oid.err), oid.err, TRUE, <<>>)
        ELSE Answer(200, NONE, TRUE, <<oid.val>>)

\* a sha of 39 hex characters, one without a hex character, one of 40 hex
\* characters and one more that is none
ShortSha == SubSeq(BlobOid(1), 1, ShaLen - 1)
NoHexSha == <<"x", "y", "z">>
LongSha == BlobOid(1) \o <<"z">>
ShaInputs == {BlobOid(1), TreeOid(1), Pad(<<"a">>), ShortSha, NoHexSha, LongSha, NotASha}

CallBlobHandler(sha) ==
    /\ req = Idle
    /\ last = NoCall
    /\ last' = [op |-> "blobs", arg |-> sha, res |-> blobHandler(sha)]
    /\ UNCHANGED <<aux, arch, repo, req>>

CallTreeHandler(refOrSha, io) ==
    /\ req = Idle
    /\ last = NoCall
    /\ last' = [op |-> "trees", arg |-> refOrSha, io |-> io, res |-> treeHandler(refOrSha, io)]
    /\ UNCHANGED <<aux, arch, repo, req>>

CallCommitHandler(sha, fpath, isString, io) ==
    /\ req = Idle
    /\ last = NoCall
    /\ last' = [op |-> "commits", arg |-> sha, path |-> fpath, isString |-> isString, io |-> io,
                res |-> commitHandler(sha, fpath, isString, io)]
    /\ UNCHANGED <<aux, arch, repo, req>>

CallContentHandler(refName, path) ==
    /\ req = Idle
    /\ last = NoCall
    /\ last' = [op |-> "contents", arg |-> refName, path |-> path,
                res |-> contentHandler(refName, path)]
    /\ UNCHANGED <<aux, arch, repo, req>>

CallRawHandler(refParam, pathParam) ==
    /\ req = Idle
    /\ last = NoCall
    /\ LET parsed == ParseRefPath(refParam, pathParam)
           blob == resolveBlob(parsed.refName, parsed.fpath, isCheckedOut(parsed.refName, FALSE).val)
       IN  /\ last' = [op |-> "raw", arg |-> refParam, path |-> pathParam,
                       res |-> rawHandler(refParam, pathParam)]
           /\ objects' = IF blob.wrote THEN Put(objects, blob.val, BlobObj(blob.read)) ELSE objects
    /\ UNCHANGED <<aux, arch, branches, tags, head, index, workdir, caseInsensitiveFS, req>>

\* ---------------------------------------------------------------- tree entries

\* the names a tree entry can have, in the order git keeps them
EntryNames == <<"a", "b">>

\* the trees of a repository, outermost first: a tree holds only later ones
TreeIds == <<"t1", "t2", "t3">>

\* what an entry can be in tree i: a blob, a submodule (type commit), a later tree
EntryKinds(i) ==
    {[oid |-> "d1", type |-> "blob", mode |-> "100644"],
     [oid |-> "b1", type |-> "commit", mode |-> "160000"]}
        \cup {[oid |-> TreeIds[j], type |-> "tree", mode |-> "040000"] : j \in (i + 1)..Len(TreeIds)}

TreeEntry(name, kind) ==
    [oid |-> kind.oid, type |-> kind.type, mode |-> kind.mode, path |-> <<name>>]

\* the entry lists tree i can have, sorted by name
EntryLists(i) ==
    {<<>>}
        \cup {<<TreeEntry(EntryNames[n], k)>> : n \in 1..Len(EntryNames), k \in EntryKinds(i)}
        \cup {<<TreeEntry(EntryNames[1], k1), TreeEntry(EntryNames[2], k2)>> :
                k1 \in EntryKinds(i), k2 \in EntryKinds(i)}

\* path.join(treePath, path) for a name without "/", "." or ".."
joinPaths(treePath, path) ==
    IF treePath = <<>> THEN path
    ELSE IF treePath[Len(treePath)] = "/" THEN treePath \o path
    ELSE treePath \o <<"/">> \o path

\* item.type === 'tree'
IsSubtreeNever(item) == FALSE
IsSubtree(item) == item.type = "tree"

\* collectTreeEntries (git.js:300-319); store: what getObject reads for a tree id
RECURSIVE collectTreeEntries(_, _, _, _, _)
RECURSIVE CollectSubtrees(_, _, _, _)
collectTreeEntries(store, entries, result, treePath, deep) ==
    LET items == [i \in 1..Len(entries) |->
                    [entries[i] EXCEPT !.path = joinPaths(treePath, entries[i].path)]]
        pushed == result \o items
    IN  IF deep THEN CollectSubtrees(store, SelectSeq(items, IsSubtree), pushed, deep)
        ELSE pushed

\* the loop over treeItems (git.js:312-316)
CollectSubtrees(store, treeItems, result, deep) ==
    IF treeItems = <<>> THEN result
    ELSE LET subTreeEntries == store[Head(treeItems).oid]
         IN  CollectSubtrees(store, Tail(treeItems),
                 collectTreeEntries(store, subTreeEntries, result, Head(treeItems).path, deep),
                 deep)

\* the tree paths a caller passes: the root, a directory, a directory with a slash
TreePathInputs == {<<>>, <<"x">>, <<"x", "/">>}

CallCollectTreeEntries(e1, e2, e3, treePath, deep) ==
    /\ req = Idle
    /\ last = NoCall
    /\ LET store == [t \in {"t1", "t2", "t3"} |->
                        IF t = "t1" THEN e1 ELSE IF t = "t2" THEN e2 ELSE e3]
       IN  last' = [op |-> "collectTreeEntries", store |-> store, path |-> treePath,
                    deep |-> deep,
                    res |-> collectTreeEntries(store, store["t1"], <<>>, treePath, deep)]
    /\ UNCHANGED <<aux, arch, repo, req>>

\* ---------------------------------------------------------------- transfer handler

\* the urls of /:owner/:repo.git(.*): a path with "..", the ref advertisement
\* (/info/refs?service=) and the service named by the last path segment
GitServices == {"git-upload-pack", "git-receive-pack"}
XferUrls ==
    [invalid : BOOLEAN, info : BOOLEAN, service : GitServices \cup {"other"}]

\* the chunks of a request body: the header line of the service, pack data
\* (short, no header), 512 bytes or more without a header
Chunks == {"header", "data", "garbage"}
Bodies == {<<>>} \cup {<<a>> : a \in Chunks} \cup {<<a, b>> : a \in Chunks, b \in Chunks}

\* resolveRepositoryPath(options, owner, repo)
RepPath == "repPath"

\* git-http-backend: the service object handed to the callback
Service(cmd, info) ==
    [cmd |-> cmd,
     args |-> <<"--stateless-rpc">> \o (IF info THEN <<"--advertise-refs">> ELSE <<>>)]

\* git-http-backend: backend(url, cb) parses the url
backend(url) ==
    IF url.invalid THEN [err |-> "invalid git path", info |-> FALSE, service |-> "other"]
    ELSE IF url.service \notin GitServices
        THEN [err |-> "unsupported git service", info |-> url.info, service |-> url.service]
    ELSE [err |-> NONE, info |-> url.info, service |-> url.service]

\* if (err) { options.logger.error(err); return }
ReturnOnErrorNever(err) == FALSE
ReturnOnError(err) == err # NONE

\* the callback of xferHandler.js:21-32: the processes it spawns
OnService(err, service) ==
    IF ReturnOnError(err) THEN <<>>
    ELSE <<[cmd |-> service.cmd, args |-> service.args \o <<RepPath>>]>>

\* the request is piped into the backend (xferHandler.js:16-21); what the url
\* parses to is reported on the next tick
XferStart(url, body) ==
    /\ xfer.pc \in {"idle", "done"}
    /\ LET b == backend(url)
       IN  xfer' = [pc |-> "open", url |-> url, info |-> b.info, service |-> b.service,
                    chunks |-> body,
                    pending |-> IF b.err # NONE THEN "error"
                                ELSE IF b.info THEN "service" ELSE NONE,
                    parsed |-> <<>>, errored |-> b.err # NONE, stream |-> FALSE,
                    spawns |-> <<>>, child |-> "none"]
    /\ UNCHANGED <<arch, repo, last, req, probe, mw>>

\* process.nextTick: the backend emits 'error' or, for a ref advertisement, 'service'
XferTick ==
    /\ xfer.pc = "open"
    /\ xfer.pending # NONE
    /\ xfer' = IF xfer.pending = "error"
                 THEN [xfer EXCEPT !.pending = NONE,
                                   !.spawns = @ \o OnService("error", Service(xfer.service, xfer.info))]
                 ELSE [xfer EXCEPT !.pending = NONE,
                                   !.parsed = <<Service(xfer.service, TRUE)>>,
                                   !.spawns = @ \o OnService(NONE, Service(xfer.service, TRUE)),
                                   !.stream = OnService(NONE, Service(xfer.service, TRUE)) # <<>>,
                                   !.child = IF OnService(NONE, Service(xfer.service, TRUE)) # <<>>
                                             THEN "running" ELSE @]
    /\ UNCHANGED <<arch, repo, last, req, probe, mw>>

\* a chunk of the body reaches the backend (_write): forwarded to the stream of
\* the service once there is one, buffered for a ref advertisement, dropped
\* after a url error; else the header is looked for
XferWrite ==
    /\ xfer.pc = "open"
    /\ xfer.pending = NONE
    /\ xfer.chunks # <<>>
    /\ LET chunk == Head(xfer.chunks)
           rest == [xfer EXCEPT !.chunks = Tail(@)]
       IN  xfer' =
             IF xfer.stream \/ xfer.info \/ xfer.errored THEN rest
             ELSE IF chunk = "header"
                 THEN [rest EXCEPT !.parsed = <<Service(xfer.service, FALSE)>>,
                                   !.spawns = @ \o OnService(NONE, Service(xfer.service, FALSE)),
                                   !.stream = OnService(NONE, Service(xfer.service, FALSE)) # <<>>,
                                   !.child = IF OnService(NONE, Service(xfer.service, FALSE)) # <<>>
                                             THEN "running" ELSE @]
             ELSE IF chunk = "garbage"
                 THEN [rest EXCEPT !.errored = TRUE, !.chunks = <<>>,
                                   !.spawns = @ \o OnService("error", Service(xfer.service, FALSE))]
             ELSE rest
    /\ UNCHANGED <<arch, repo, last, req, probe, mw>>

\* the child process ends, or could not be started ('error' on the child,
\* which nothing listens to: the process ends with it)
XferChild(ok) ==
    /\ xfer.pc = "open"
    /\ xfer.child = "running"
    /\ xfer' = IF ok THEN [xfer EXCEPT !.child = "exited"]
               ELSE [xfer EXCEPT !.child = "failed", !.pc = "crashed"]
    /\ UNCHANGED <<arch, repo, last, req, probe, mw>>

\* the request has been read to its end and no process is running
XferEnd ==
    /\ xfer.pc = "open"
    /\ xfer.pending = NONE
    /\ xfer.chunks = <<>>
    /\ xfer.child # "running"
    /\ xfer' = [xfer EXCEPT !.pc = "done"]
    /\ UNCHANGED <<arch, repo, last, req, probe, mw>>

\* ---------------------------------------------------------------- raw-request listener

\* options.onRawRequest: not configured, a function that returns, one that throws
Listeners == {"none", "returns", "throws"}

\* what the call of the listener throws
onRawRequest(listener) == IF listener = "throws" THEN "Error" ELSE NONE

\* catch { /* ignore errors from listener */ }
ListenerCaughtNever(e) == FALSE
ListenerCaught(e) == TRUE

\* the listener stage (rawHandler.js:52-67): the error that leaves it
ListenerStage(listener) ==
    IF listener = "none" THEN NONE
    ELSE LET e == onRawRequest(listener)
         IN  IF e # NONE /\ ~ListenerCaught(e) THEN e ELSE NONE

\* GET /raw/:owner/:repo/:ref/:path with the listener stage; an error that
\* leaves the stage is not seen by the error stage, which comes after it
rawRequest(listener, refParam, pathParam) ==
    IF ListenerStage(listener) # NONE
        THEN Answer(Uncaught(ListenerStage(listener)), ListenerStage(listener), FALSE, <<>>)
        ELSE rawHandler(refParam, pathParam)

\* one request, and what the same request is answered under each listener
CallRawRequest(listener, refParam, pathParam) ==
    /\ req = Idle
    /\ last = NoCall
    /\ LET parsed == ParseRefPath(refParam, pathParam)
           blob == resolveBlob(parsed.refName, parsed.fpath, isCheckedOut(parsed.refName, FALSE).val)
       IN  /\ last' = [op |-> "rawRequest", listener |-> listener, arg |-> refParam,
                       path |-> pathParam,
                       res |-> rawRequest(listener, refParam, pathParam),
                       under |-> [l \in Listeners |-> rawRequest(l, refParam, pathParam)]]
           /\ objects' = IF blob.wrote /\ ListenerStage(listener) = NONE
                            THEN Put(objects, blob.val, BlobObj(blob.read)) ELSE objects
    /\ UNCHANGED <<aux, arch, branches, tags, head, index, workdir, caseInsensitiveFS, req>>

\* ---------------------------------------------------------------- src/lib/core/utils.js, the flag

\* process.execPath and its spellings
ExecPath == <<"n", "o", "d", "e">>
ToLowerCase(p) == [i \in 1..Len(p) |-> CASE p[i] = "N" -> "n" [] p[i] = "O" -> "o"
                                          [] p[i] = "D" -> "d" [] p[i] = "E" -> "e"
                                          [] OTHER -> p[i]]
ToUpperCase(p) == [i \in 1..Len(p) |-> CASE p[i] = "n" -> "N" [] p[i] = "o" -> "O"
                                          [] p[i] = "d" -> "D" [] p[i] = "e" -> "E"
                                          [] OTHER -> p[i]]

\* fse.stat of a spelling of the executable's path: its inode, 0 where the
\* catch block puts false
StatExec(p) ==
    IF p = ExecPath \/ (caseInsensitiveFS /\ ToLowerCase(p) = ToLowerCase(ExecPath)) THEN 1 ELSE 0

\* lcStat && ucStat ? same dev and ino : false (utils.js:42-46)
FlagOf(lcStat, ucStat) ==
    IF lcStat # 0 /\ ucStat # 0 /\ lcStat = ucStat THEN "true" ELSE "false"

\* typeof _caseInsensitiveFS === 'undefined' (utils.js:31)
IsUndefined(flag) == flag = "undefined"

\* isCaseInsensitiveFS is called: with the flag set it returns it, else it
\* starts the first stat (utils.js:30-35)
ProbeCall(p) ==
    /\ probe.call[p].pc \in {"idle", "done"}
    /\ probe' = IF IsUndefined(probe.flag)
                  THEN [probe EXCEPT !.call[p] = [pc |-> "lc"], !.stats = @ + 1]
                  ELSE [probe EXCEPT !.call[p] = [pc |-> "done", ret |-> probe.flag]]
    /\ UNCHANGED <<arch, repo, last, req, xfer, mw>>

\* the stat of the lower-case path is back; the second stat starts (utils.js:34-40)
ProbeLower(p) ==
    /\ probe.call[p].pc = "lc"
    /\ probe' = [probe EXCEPT !.call[p] = [pc |-> "uc", lcStat |-> StatExec(ToLowerCase(ExecPath))]]
    /\ UNCHANGED <<arch, repo, last, req, xfer, mw>>

\* the stat of the upper-case path is back: the flag is set and returned
\* (utils.js:41-49)
ProbeUpper(p) ==
    /\ probe.call[p].pc = "uc"
    /\ LET flag == FlagOf(probe.call[p].lcStat, StatExec(ToUpperCase(ExecPath)))
       IN  probe' = [probe EXCEPT !.flag = flag, !.call[p] = [pc |-> "done", ret |-> flag]]
    /\ UNCHANGED <<arch, repo, last, req, xfer, mw>>

\* ---------------------------------------------------------------- src/lib/core/utils.js, pathExists

\* a directory tree below parentDir: the entries by their path, each "file"
\* or "dir"; an entry is there only under a directory
DiskTrees ==
    {t \in UNION {[D -> {"file", "dir"}] : D \in SUBSET {<<"d">>, <<"f">>, <<"d", "f">>}} :
        /\ <<"f">> \in DOMAIN t => t[<<"f">>] = "file"
        /\ <<"d", "f">> \in DOMAIN t =>
            (<<"d">> \in DOMAIN t /\ t[<<"d">>] = "dir" /\ t[<<"d", "f">>] = "file")}

\* the names a segment of the tested path can have
SegmentNames == {"d", "D", "f", "F"}

\* relative paths of one and two segments, some with redundant slashes
PathsToTest ==
    {<<>>} \cup {<<a>> : a \in SegmentNames} \cup {<<"/", a>> : a \in SegmentNames}
        \cup {<<a, "/", b>> : a \in SegmentNames, b \in SegmentNames}
        \cup {<<a, "/", "/", b>> : a \in {"d", "D"}, b \in {"f", "F"}}
        \cup {<<a, "/">> : a \in {"d", "D"}}

\* pathToTest.split('/').filter((el) => el !== '') for names of one character
RECURSIVE SplitPath(_)
SplitPath(pathToTest) ==
    IF pathToTest = <<>> THEN <<>>
    ELSE IF Head(pathToTest) = "/" THEN SplitPath(Tail(pathToTest))
    ELSE <<Head(pathToTest)>> \o SplitPath(Tail(pathToTest))

\* a name as a file system that ignores case compares it
FoldCase(nm) == CASE nm = "D" -> "d" [] nm = "F" -> "f" [] OTHER -> nm

\* the entry a path leads to on the disk, <<>> if none: names are compared
\* as the file system compares them
RECURSIVE Lookup(_, _, _)
Lookup(t, at, names) ==
    IF names = <<>> THEN <<at>>
    ELSE IF at # <<>> /\ t[at] # "dir" THEN <<>>
    ELSE LET found == {p \in DOMAIN t :
                        /\ Len(p) = Len(at) + 1
                        /\ SubSeq(p, 1, Len(at)) = at
                        /\ IF caseInsensitiveFS THEN FoldCase(p[Len(p)]) = FoldCase(Head(names))
                                                ELSE p[Len(p)] = Head(names)}
         IN  IF found = {} THEN <<>> ELSE Lookup(t, CHOOSE p \in found : TRUE, Tail(names))

\* fse.pathExists(path.join(parentDir, pathToTest)): path.join keeps a
\* trailing slash, and a path with one leads to nothing but a directory
FsePathExists(t, pathToTest) ==
    LET entry == Lookup(t, <<>>, SplitPath(pathToTest))
    IN  /\ entry # <<>>
        /\ (pathToTest # <<>> /\ pathToTest[Len(pathToTest)] = "/" /\ entry[1] # <<>>) =>
                t[entry[1]] = "dir"

\* fse.readdir(parent): the names as spelled on disk, or the error
Readdir(t, parent) ==
    LET dir == Lookup(t, <<>>, parent)
    IN  IF dir = <<>> THEN R("ENOENT", {})
        ELSE IF dir[1] # <<>> /\ t[dir[1]] # "dir" THEN R("ENOTDIR", {})
        ELSE R(NONE, {p[Len(p)] : p \in {q \in DOMAIN t :
                        Len(q) = Len(dir[1]) + 1 /\ SubSeq(q, 1, Len(dir[1])) = dir[1]}})

\* (el) => el === nm
SameNameAnyCase(el, nm) == FoldCase(el) = FoldCase(nm)
SameName(el, nm) == el = nm

\* the loop of utils.js:68-79 from segment i on
RECURSIVE PathExistsLoop(_, _, _, _)
PathExistsLoop(t, names, i, parent) ==
    IF i > Len(names) THEN TRUE
    ELSE LET nm == names[i]
             listing == Readdir(t, parent)
         IN  IF listing.err # NONE THEN FALSE
             ELSE IF {el \in listing.val : SameName(el, nm)} = {} THEN FALSE
             ELSE PathExistsLoop(t, names, i + 1, parent \o <<nm>>)

\* pathExists(parentDir, pathToTest) (utils.js:59-81) on the tree below parentDir
pathExistsIn(t, pathToTest) ==
    IF ~isCaseInsensitiveFS THEN FsePathExists(t, pathToTest)
    ELSE PathExistsLoop(t, SplitPath(pathToTest), 1, <<>>)

CallPathExists(t, pathToTest) ==
    /\ req = Idle
    /\ last = NoCall
    /\ last' = [op |-> "pathExists", tree |-> t, path |-> pathToTest,
                res |-> pathExistsIn(t, pathToTest)]
    /\ UNCHANGED <<aux, arch, repo, req>>

\* ---------------------------------------------------------------- src/lib/app.js

\* the application of app.js:15-35 and the older one of app.js:60-113, which
\* installs the router itself: the middleware of each, in the order of app.use
Apps == {"app", "legacy"}
Middleware(app) ==
    IF app = "app" THEN <<"logger", "subdomain", "poweredBy", "router">>
    ELSE <<"logger", "subdomain", "router">>

\* options.subdomainMapping.baseDomains
BaseDomain == <<"localtest", "me">>

\* Host headers, as their labels: the base domain, a subdomain of it, another host
Hosts == {BaseDomain, <<"o">> \o BaseDomain, <<"example", "com">>}

\* request paths, as their segments
Urls ==
    {<<"raw", "o", "r", "m", "f">>, <<"o", "r", "raw", "m", "f">>, <<"r", "raw", "m", "f">>,
     <<"api", "repos", "o", "r", "commits">>, <<"o", "r">>, <<"r">>, <<>>}

\* the route of routes.js:17-45 a GET of the path matches, NONE if none does
RouteOf(url) ==
    IF Len(url) >= 5 /\ url[1] = "raw" THEN "raw"
    ELSE IF Len(url) >= 5 /\ url[3] = "raw" THEN "raw"
    ELSE IF Len(url) = 5 /\ url[1] = "api" /\ url[2] = "repos" /\ url[5] = "commits" THEN "commits"
    ELSE IF Len(url) = 2 THEN "html"
    ELSE NONE

\* the subdomain handler: the labels in front of the base domain, put in
\* front of the path (subdomainHandler.js:11-42)
Subdomains(enabled, host) ==
    IF ~enabled THEN <<>>
    ELSE IF ~EndsWith(host, BaseDomain) THEN <<>>
    ELSE SubSeq(host, 1, Len(host) - Len(BaseDomain))

\* whether the middleware calls next()
PassesOn(stage) == stage # "poweredBy"

\* the stage is over: control goes downstream if the middleware called
\* next(), else the chain unwinds and koa answers with what was set (404
\* without a body)
Leave(r, stage) ==
    LET chain == Middleware(r.app)
        i == CHOOSE k \in 1..Len(chain) : chain[k] = stage
    IN  IF PassesOn(stage)
            THEN [r EXCEPT !.pc = chain[i + 1], !.passed = Append(@, stage)]
            ELSE [r EXCEPT !.pc = "done", !.status = 404]

\* a request arrives
MwStart(app, enabled, host, url) ==
    /\ mw.pc \in {"idle", "done"}
    /\ mw' = [pc |-> "logger", app |-> app, enabled |-> enabled, host |-> host, url |-> url,
              asked |-> url, mapped |-> FALSE, poweredBy |-> FALSE, passed |-> <<>>,
              reached |-> NONE, status |-> 0]
    /\ UNCHANGED <<arch, repo, last, req, xfer, probe>>

\* morgan, through koa-connect (app.js:22)
MwLogger ==
    /\ mw.pc = "logger"
    /\ mw' = Leave(mw, "logger")
    /\ UNCHANGED <<arch, repo, last, req, xfer, probe>>

\* the subdomain handler (app.js:27)
MwSubdomain ==
    /\ mw.pc = "subdomain"
    /\ LET sub == Subdomains(mw.enabled, mw.host)
       IN  mw' = IF sub = <<>> THEN Leave(mw, "subdomain")
                 ELSE Leave([mw EXCEPT !.url = sub \o @, !.mapped = TRUE], "subdomain")
    /\ UNCHANGED <<arch, repo, last, req, xfer, probe>>

\* ctx.set('x-powered-by', ...) (app.js:28-30)
MwPoweredBy ==
    /\ mw.pc = "poweredBy"
    /\ mw' = Leave([mw EXCEPT !.poweredBy = TRUE], "poweredBy")
    /\ UNCHANGED <<arch, repo, last, req, xfer, probe>>

\* the router: the handler of the matching route answers (routes.js:47)
MwRouter ==
    /\ mw.pc = "router"
    /\ mw' = IF RouteOf(mw.url) = NONE THEN [mw EXCEPT !.pc = "done", !.status = 404]
             ELSE [mw EXCEPT !.pc = "done", !.status = 200, !.reached = RouteOf(mw.url),
                             !.passed = Append(@, "router")]
    /\ UNCHANGED <<arch, repo, last, req, xfer, probe>>

\* ---------------------------------------------------------------- specifications

\* git at work on the repository, beside the server
EnvNext ==
    \/ \E n \in Contents : EditFile(n)
    \/ RemoveFile
    \/ GitAdd
    \/ GitCommit
    \/ \E b \in BranchNames : GitCheckout(b)
    \/ \E b \in BranchNames : GitCheckoutNew(b)
    \/ \E b \in BranchNames, c \in CommitIds : PushBranch(b, c)
    \/ \E t \in TagNames, c \in CommitIds : PushTag(t, c)

\* reference resolution (spec 4.1, isCheckedOut of 4.2)
ResolveNext ==
    \/ \E s \in RefPathInputs : CallDetermineRefPathName(s)
    \/ \E ref \in RefInputs, io \in BOOLEAN : CallResolveCommit(ref, io)
    \/ \E x \in TreeInputs, io \in BOOLEAN : CallResolveTree(x, io)
    \/ \E ref \in RefInputs, io \in BOOLEAN : CallIsCheckedOut(ref, io)

\* the working-tree overlay (spec 4.2)
BlobNext ==
    \E ref \in BlobRefInputs, p \in PathInputs, inc \in BOOLEAN : CallResolveBlob(ref, p, inc)

\* a raw-content request, one await at a time
RawNext ==
    \/ \E r \in ReqRefs, p \in ReqPaths : RawParse(r, p)
    \/ RawHead
    \/ RawRef
    \/ RawCommit
    \/ RawStatus
    \/ RawExists
    \/ RawRead
    \/ RawStream
    \/ RawDone

\* archive requests beside a developer who edits, commits and changes branch
ArchEnv ==
    \/ \E n \in Contents : EditFile(n)
    \/ GitAdd
    \/ GitCommit
    \/ \E b \in BranchNames : GitCheckoutNew(b)

ArchNext ==
    \/ \E s \in Slots, ref \in ArchRefs, fmt \in Formats : ArchStart(s, ref, fmt)
    \/ \E s \in Slots : ArchCache(s)
    \/ \E s \in Slots : ArchBuild(s)
    \/ \E s \in Slots : ArchFinish(s)
    \/ \E s \in Slots : ArchWriteError(s)

\* a developer at work: edits, commits that change the file, commits that
\* change another, branches
ApiEnv ==
    \/ \E n \in Contents : EditFile(n)
    \/ RemoveFile
    \/ GitAdd
    \/ GitCommit
    \/ GitCommitOther
    \/ \E b \in BranchNames : GitCheckoutNew(b)

LogNext ==
    \E ref \in LogRefInputs, path \in LogPathInputs, io \in BOOLEAN : CallCommitLog(ref, path, io)

ApiNext ==
    \/ \E sha \in ShaInputs : CallBlobHandler(sha)
    \/ \E x \in TreeInputs, io \in BOOLEAN : CallTreeHandler(x, io)
    \/ \E ref \in LogRefInputs, path \in LogPathInputs, isString \in BOOLEAN, io \in BOOLEAN :
            CallCommitHandler(ref, path, isString, io)
    \/ \E ref \in LogRefInputs, path \in LogPathInputs : CallContentHandler(ref, path)
    \/ \E r \in ReqRefs \cup {Unknown}, path \in ReqPaths : CallRawHandler(r, path)

TreeNext ==
    \E e1 \in EntryLists(1), e2 \in EntryLists(2), e3 \in EntryLists(3),
       treePath \in TreePathInputs, deep \in BOOLEAN :
        CallCollectTreeEntries(e1, e2, e3, treePath, deep)

XferNext ==
    \/ \E url \in XferUrls, body \in Bodies : XferStart(url, body)
    \/ XferTick
    \/ XferWrite
    \/ \E ok \in BOOLEAN : XferChild(ok)
    \/ XferEnd

ListenerNext ==
    \E l \in Listeners, ref \in ReqRefs, p \in ReqPaths : CallRawRequest(l, ref, p)

ChainEnv == \E entries \in Histories : GitClone(entries)

ProbeNext == \E p \in Callers : ProbeCall(p) \/ ProbeLower(p) \/ ProbeUpper(p)

PathNext == \E t \in DiskTrees, p \in PathsToTest : CallPathExists(t, p)

MwNext ==
    \/ \E app \in Apps, enabled \in BOOLEAN, host \in Hosts, url \in Urls :
            MwStart(app, enabled, host, url)
    \/ MwLogger
    \/ MwSubdomain
    \/ MwPoweredBy
    \/ MwRouter

Next ==
    EnvNext \/ GitCommitOther \/ ResolveNext \/ BlobNext \/ RawNext \/ ArchNext \/ LogNext \/ ApiNext
        \/ TreeNext
        \/ XferNext
        \/ ListenerNext
        \/ ChainEnv
        \/ ProbeNext
        \/ PathNext
        \/ MwNext
        \/ CallReturn

\* the whole system
Spec == Init /\ [][Next]_vars

\* the system restricted to the calls of one component
ResolveStep == EnvNext \/ ResolveNext \/ CallReturn
BlobStep == EnvNext \/ BlobNext \/ CallReturn
RawStep == EnvNext \/ RawNext

SpecResolve == InitCaseSensitive /\ [][ResolveStep]_vars
SpecBlob == Init /\ [][BlobStep]_vars
SpecRaw == InitCaseSensitive /\ [][RawStep]_vars

LogStep == ApiEnv \/ LogNext \/ CallReturn

SpecLog == InitCaseSensitive /\ [][LogStep]_vars

ApiStep == ApiEnv \/ ApiNext \/ CallReturn

SpecApi == InitCaseSensitive /\ [][ApiStep]_vars

TreeStep == TreeNext \/ CallReturn

SpecTree == InitCaseSensitive /\ [][TreeStep]_vars

SpecXfer == InitCaseSensitive /\ [][XferNext]_vars

ListenerStep == ApiEnv \/ ListenerNext \/ CallReturn

SpecListener == InitCaseSensitive /\ [][ListenerStep]_vars

ChainStep == ChainEnv \/ LogNext \/ CallReturn

SpecChain == InitCaseSensitive /\ [][ChainStep]_vars

\* the flag on both kinds of file system
SpecProbe == Init /\ [][ProbeNext]_vars

PathStep == PathNext \/ CallReturn

\* pathExists on both kinds of file system
SpecPath == Init /\ [][PathStep]_vars

SpecApp == InitCaseSensitive /\ [][MwNext]_vars

ArchStep == ArchEnv \/ ArchNext

SpecArchive == InitCaseSensitive /\ [][ArchStep]_vars

\* ---------------------------------------------------------------- properties

Slash == <<"/">>

\* the names of the branches and tags of the repository
RefNameSet == DOMAIN branches \cup DOMAIN tags

\* the refs r such that s starts with r followed by "/"
Candidates(s) == {r \in RefNameSet : StartsWith(s, r \o Slash)}

\* C1: the ref determineRefPathName returns is a branch or tag r such that the
\* input starts with r followed by "/", and no other such ref is longer; with
\* refs b1 and b1/w both present, b1/w/f yields b1/w, never b1.
C1_LongestRefWins ==
    last.op = "determineRefPathName" =>
        /\ Candidates(last.arg) # {} =>
            /\ last.res.defined
            /\ last.res.ref \in Candidates(last.arg)
            /\ \A r \in Candidates(last.arg) : Len(r) <= Len(last.res.ref)
        /\ (B \in RefNameSet /\ BW \in RefNameSet /\ last.arg = BW \o Slash \o FileF) =>
            last.res.ref = BW

C1_Witness ==
    /\ last.op = "determineRefPathName"
    /\ B \in RefNameSet
    /\ BW \in RefNameSet
    /\ last.arg = BW \o Slash \o FileF
    /\ last.res.ref = BW

\* C2 as claimed: on input <ref>/<filename> the remaining path is <filename>,
\* without the "/" that separates it from the ref.
C2_PathWithoutSlash ==
    (last.op = "determineRefPathName" /\ last.res.defined) =>
        last.arg = last.res.ref \o Slash \o last.res.pathName

\* C2 as the code has it: the remaining path is the input from the end of the
\* ref on, so it starts with the separating "/" (<ref>/<filename> gives
\* /<filename>); the parsing stage of the raw handler then strips the leading
\* slashes, so that its path never starts with "/".
C2_PathKeepsSlash ==
    /\ (last.op = "determineRefPathName" /\ last.res.defined) =>
        /\ last.arg = last.res.ref \o last.res.pathName
        /\ Head(last.res.pathName) = "/"
    /\ \A r \in ReqRefs, q \in ReqPaths :
        LET parsed == ParseRefPath(r, q)
        IN  parsed.fpath = <<>> \/ Head(parsed.fpath) # "/"

C2_Witness ==
    /\ last.op = "determineRefPathName"
    /\ last.arg = BW \o Slash \o FileF
    /\ last.res.ref = BW
    /\ last.res.pathName = Slash \o FileF
    /\ ParseRefPath(B, <<"w", "/", "f">>) = [refName |-> BW, fpath |-> FileF]

\* the object ids of the store that start with p
Expansions(p) == {o \in DOMAIN objects : StartsWith(o, p)}

\* p is an abbreviated id of commit c: a proper prefix of c and of no other object
AbbreviatedOf(p, c) ==
    /\ c \in DOMAIN objects
    /\ objects[c].type = "commit"
    /\ Len(p) < ShaLen
    /\ Expansions(p) = {c}

\* resolveCommit gives commit c for its full id and for every ref that points to it
SameForIdAndRefs(c) ==
    /\ resolveCommit(c, FALSE) = [err |-> NONE, val |-> c, expanded |-> FALSE]
    /\ \A r \in RefNameSet :
        resolveRef(r, FALSE).val = c => resolveCommit(r, FALSE).val = c

\* C3 as claimed: resolveCommit of an unambiguous abbreviated id p of a known
\* commit c returns c, as it does for the full id and for a ref pointing to c.
C3_AbbreviatedIdResolves ==
    (last.op = "resolveCommit" /\ ~last.io) =>
        \A c \in DOMAIN objects :
            AbbreviatedOf(last.arg, c) =>
                /\ last.res.err = NONE
                /\ last.res.val = c
                /\ SameForIdAndRefs(c)

\* C3 as the code has it: the same, provided no branch or tag is named p; the
\* direct ref lookup comes first, so a ref named p wins over the commit p
\* abbreviates.
C3_AbbreviatedIdResolvesUnlessRef ==
    (last.op = "resolveCommit" /\ ~last.io) =>
        \A c \in DOMAIN objects :
            (AbbreviatedOf(last.arg, c) /\ last.arg \notin RefNameSet) =>
                /\ last.res.err = NONE
                /\ last.res.val = c
                /\ SameForIdAndRefs(c)

C3_Witness ==
    /\ last.op = "resolveCommit"
    /\ ~last.io
    /\ last.arg = Abbrev(CommitOid(2))
    /\ AbbreviatedOf(last.arg, CommitOid(2))
    /\ last.res.val = CommitOid(2)
    /\ \E r \in RefNameSet : resolveRef(r, FALSE).val = CommitOid(2)

\* C4: resolveCommit fails with NotFound, the error of the direct lookup, when
\* ref is no known ref and cannot be expanded; it expands only after the
\* direct lookup failed with NotFound; any other error of the lookup is the
\* result as it is, and nothing is expanded.
C4_NotFoundAndRethrow ==
    last.op = "resolveCommit" =>
        LET direct == resolveRef(last.arg, last.io)
        IN  /\ (direct.err = "NotFound" /\ Cardinality(Expansions(last.arg)) # 1) =>
                last.res.err = "NotFound"
            /\ last.res.expanded => direct.err = "NotFound"
            /\ direct.err \notin {NONE, "NotFound"} =>
                (last.res.err = direct.err /\ ~last.res.expanded)

C4_Witness ==
    /\ last.op = "resolveCommit"
    /\ ~last.io
    /\ last.arg = <<"b">>
    /\ Cardinality(Expansions(last.arg)) = 2
    /\ last.res.err = "NotFound"
    /\ last.res.expanded

\* the tree a stored object o stands for: itself, or the tree of the commit
TreeFor(o) == IF objects[o].type = "commit" THEN objects[o].tree ELSE o

\* what the argument of resolveTree names: the full id itself, else the ref of
\* that name, else the one object it abbreviates (<<>>: nothing)
Named(x, io) ==
    IF IsFullOid(x) THEN x
    ELSE IF resolveRef(x, io).err = NONE THEN resolveRef(x, io).val
    ELSE IF resolveRef(x, io).err = "NotFound" /\ Cardinality(Expansions(x)) = 1
        THEN CHOOSE o \in Expansions(x) : TRUE
    ELSE <<>>

\* C5: every object resolveTree returns is a stored tree; a tree it names is
\* returned, a commit it names gives the tree of that commit under the tree's
\* id, a blob it names gives ObjectTypeError; a well-formed full id is read
\* without any ref lookup.
C5_TreeOrTypeError ==
    last.op = "resolveTree" =>
        LET o == Named(last.arg, last.io)
        IN  /\ last.res.err = NONE =>
                /\ last.res.obj.type = "tree"
                /\ last.res.obj.oid \in DOMAIN objects
                /\ objects[last.res.obj.oid].type = "tree"
                /\ last.res.obj.object = objects[last.res.obj.oid]
            /\ (o \in DOMAIN objects /\ objects[o].type \in {"tree", "commit"}) =>
                (last.res.err = NONE /\ last.res.obj.oid = TreeFor(o))
            /\ (o \in DOMAIN objects /\ objects[o].type = "blob") =>
                last.res.err = "ObjectTypeError"
            /\ IsFullOid(last.arg) => (~last.res.lookedUp /\ ~last.res.expanded)

C5_Witness ==
    /\ last.op = "resolveTree"
    /\ last.arg = CommitOid(1)
    /\ last.io
    /\ last.res.err = NONE
    /\ last.res.obj.oid = objects[CommitOid(1)].tree
    /\ last.res.obj.type = "tree"
    /\ ~last.res.lookedUp

\* C6: isCheckedOut raises no error; it returns true only if HEAD and ref both
\* resolve, and to the same commit id; if either does not resolve it returns
\* false.
C6_CheckedOutOnlyIfSame ==
    last.op = "isCheckedOut" =>
        LET h == resolveRef(HEADNAME, last.io)
            r == resolveRef(last.arg, last.io)
        IN  /\ last.res.err = NONE
            /\ last.res.val => (h.err = NONE /\ r.err = NONE /\ h.val = r.val)
            /\ (h.err # NONE \/ r.err # NONE) => ~last.res.val

C6_Witness ==
    /\ last.op = "isCheckedOut"
    /\ last.arg = BW
    /\ head = M
    /\ last.res.val
    /\ last.res.err = NONE

\* ---- the working-tree overlay

\* the commit resolveBlob resolved its ref to
BlobCommit == resolveCommit(last.arg, FALSE)

\* what the tree of that commit records at the path: the blob id, or NotFound
Recorded ==
    IF BlobCommit.val \in DOMAIN last.before.objects
           /\ last.path = FileF /\ EntryOf(BlobCommit.val) # 0
        THEN R(NONE, BlobOid(EntryOf(BlobCommit.val)))
        ELSE R("NotFound", <<>>)

\* the call neither read the working file nor changed the object store
NoReadNoWrite ==
    /\ last.res.read = 0
    /\ ~last.res.wrote
    /\ objects = last.before.objects

\* C7: without includeUncommitted resolveBlob answers what the tree of the
\* commit records at the path, whatever the working copy holds, reads no
\* working file and writes no blob.
C7_CommittedIgnoresWorkingCopy ==
    (last.op = "resolveBlob" /\ ~last.inc /\ BlobCommit.err = NONE) =>
        /\ last.res.err = Recorded.err
        /\ last.res.val = Recorded.val
        /\ NoReadNoWrite

C7_Witness ==
    /\ last.op = "resolveBlob"
    /\ ~last.inc
    /\ last.arg = M
    /\ last.path = FileF
    /\ status(FileF) = Star(S_modified)
    /\ last.res.err = NONE
    /\ last.res.val = BlobOid(EntryOf(HeadCommit))
    /\ last.res.val # BlobOid(workdir)

UnmodifiedStatus == {S_unmodified, Star(S_unmodified)}
GoneStatus == {S_absent, Star(S_absent), S_deleted, Star(S_deleted)}
AddedStatus == {S_added, Star(S_added)}
ModifiedStatus == {S_modified, Star(S_modified)}

\* an entry of exactly this name is on disk
OnDisk(pathName) == pathName \in readdir

C9_LiveBytes ==
    (last.op = "resolveBlob" /\ last.inc /\ BlobCommit.err = NONE) =>
        LET st == status(last.path)
        IN  (st \in ModifiedStatus \/ (st \in AddedStatus /\ OnDisk(last.path))) =>
                /\ last.res.err = NONE
                /\ last.res.val = BlobOid(workdir)
                /\ last.content = [err |-> NONE, content |-> workdir]
                /\ branches = last.before.branches
                /\ tags = last.before.tags
                /\ head = last.before.head
                /\ \A o \in DOMAIN objects :
                    \/ o \in DOMAIN last.before.objects /\ objects[o] = last.before.objects[o]
                    \/ o = last.res.val /\ objects[o].type = "blob"
                /\ DOMAIN last.before.objects \subseteq DOMAIN objects

C9_Witness ==
    /\ last.op = "resolveBlob"
    /\ last.inc
    /\ last.arg = M
    /\ status(last.path) = Star(S_modified)
    /\ last.res.val = BlobOid(workdir)
    /\ last.res.val \notin DOMAIN last.before.objects
    /\ last.content.content = workdir

\* ---- the raw-content handler

\* C10 as claimed: a response that carries bytes read from the working copy
\* was read while the requested ref was checked out, whatever git did to HEAD
\* and the refs between the steps of the request.
C10_LiveOnlyIfCheckedOut ==
    (req.pc = "done" /\ req.live) => req.coAtRead

\* ---- the archive cache

\* a request of the connection got past ref resolution and serves the working copy
Uncommitted(s) == areq[s].pc # "idle" /\ areq[s].serveUncommitted

\* the request of the connection is answered
Answered(s) == areq[s].pc = "done"

\* what holds of a checked-out request in every state
C11_SnapshotState ==
    /\ \A name \in DOMAIN cache : name.id # SNAPSHOT
    /\ \A s \in Slots : Uncommitted(s) =>
        /\ areq[s].name.id = SNAPSHOT
        /\ ~areq[s].hit
        /\ ~areq[s].wrote
        /\ Answered(s) => (areq[s].status = 200 /\ areq[s].body.kind = "archive" /\ areq[s].body.build = 0)

\* the step that answers a checked-out request archives the working
\* directory as it is at that step and leaves the cache directory alone
C11_SnapshotStep ==
    \A s \in Slots :
        (Uncommitted(s) /\ ~Answered(s) /\ areq'[s].pc = "done") =>
            (areq'[s].body = Archive(workdir, 0) /\ cache' = cache)

\* C11: an archive request for a checked-out ref never reads a cache file and
\* never writes one; its archive is built from the working directory at the
\* time of the build, the file name carries SNAPSHOT for the commit id, and
\* no file of the cache is ever named SNAPSHOT.
C11_CheckedOutNeverCached == []C11_SnapshotState /\ [][C11_SnapshotStep]_vars

\* a checked-out request is answered with the edited working copy while the
\* cache holds a finished archive of the commit the ref points to
C11_Witness ==
    \E s \in Slots :
        /\ Answered(s)
        /\ areq[s].serveUncommitted
        /\ areq[s].status = 200
        /\ LET committed == [id |-> areq[s].commitSha, ext |-> areq[s].name.ext]
           IN  /\ committed \in DOMAIN cache
               /\ Finalized(cache[committed])
               /\ areq[s].body.entry # cache[committed].bytes.entry

\* C12 as claimed: a request for a ref that is not checked out, arriving
\* after a response under the same file name (owner, repository, commit id,
\* format) was complete, is answered from the cache file, with no object
\* read, no tree walk and no write, and with the bytes of that first
\* response.
C12_SecondFromCache ==
    \A s \in Slots :
        (Answered(s) /\ ~areq[s].serveUncommitted /\ areq[s].prior) =>
            /\ areq[s].status = 200
            /\ areq[s].hit
            /\ ~areq[s].objectsRead
            /\ ~areq[s].treeWalked
            /\ ~areq[s].wrote
            /\ areq[s].body = served[areq[s].name]

\* C13 as claimed: every file the existence check of a request can find in
\* the cache directory holds a complete, finalized archive.
C13_CacheNeverPartial ==
    \A name \in DOMAIN cache : Finalized(cache[name])

\* C17 as claimed: an archive request whose ref does not resolve is answered
\* 404, with no archive bytes and no cache file written.
C17_UnresolvedGives404 ==
    \A s \in Slots :
        (Answered(s) /\ areq[s].notFound) =>
            /\ areq[s].status = 404
            /\ areq[s].body = NoBody
            /\ ~areq[s].wrote

\* ---- the commit log

\* the history the log walks: the commits of the ref, newest first
Chain == log(last.arg, FALSE).val

\* the entry of the path in commit c (0: the path is not in its tree)
EntryAt(c) == IF last.path = FileF THEN EntryOf(c) ELSE 0

\* the path came with the k-th commit of the chain and has one blob id in it
\* and in every newer commit of the chain
IntroducedAt(k) ==
    /\ k \in 1..Len(Chain)
    /\ EntryAt(Chain[k]) # 0
    /\ \A i \in 1..k : EntryAt(Chain[i]) = EntryAt(Chain[k])
    /\ k < Len(Chain) => EntryAt(Chain[k + 1]) = 0

\* C20: commitLog with a path filter, on a chain where the path came with
\* commit K and has the same blob id in K and in every newer commit, returns
\* exactly K, whether K is the oldest commit of the chain or the path is
\* absent from the parent of K.
C20_OnlyIntroducingCommit ==
    (last.op = "commitLog" /\ ~last.io /\ Len(last.path) > 0 /\ log(last.arg, FALSE).err = NONE) =>
        \A k \in 1..Len(Chain) : IntroducedAt(k) => last.res = R(NONE, <<Chain[k]>>)

\* the path has been there since the oldest of two commits and was not touched
C20_Witness ==
    /\ last.op = "commitLog"
    /\ ~last.io
    /\ last.path = FileF
    /\ log(last.arg, FALSE).err = NONE
    /\ Len(Chain) = 2
    /\ IntroducedAt(2)
    /\ last.res.val = <<Chain[2]>>

\* ---- the api endpoints

\* C14 as claimed: a blob request whose sha is not exactly 40 characters of
\* [0-9a-f] is answered 422 and no object read is attempted.
C14_MalformedShaGives422 ==
    (last.op = "blobs" /\ ~isValidSha(last.arg)) =>
        (last.res.status = 422 /\ ~last.res.started)

\* the endpoints C15 speaks of
ResolvingEndpoints == {"blobs", "trees", "raw", "commits"}

\* C15: at the blob, tree, raw-content and commit-log endpoints a NotFound
\* raised by resolution is answered 404, and no other error is answered 404.
C15_NotFoundIs404 ==
    last.op \in ResolvingEndpoints =>
        /\ last.res.thrown = "NotFound" => last.res.status = 404
        /\ last.res.thrown \notin {NONE, "NotFound"} => last.res.status # 404

\* the commit log of an unknown ref
C15_Witness ==
    /\ last.op = "commits"
    /\ last.arg = Unknown
    /\ last.isString
    /\ last.res.thrown = "NotFound"
    /\ last.res.status = 404

\* C16 as claimed: a contents request whose ref or path does not resolve is
\* answered 404 with a message that names the requested ref.
C16_ContentsNotFoundNamesRef ==
    (last.op = "contents" /\ last.res.thrown = "NotFound") =>
        (last.res.status = 404 /\ last.res.body = <<"refName">>)

\* C18 as claimed: a commit-log request whose path filter is not a string is
\* answered 4xx before commitLog is started.
C18_NonStringPathRejected ==
    (last.op = "commits" /\ ~last.isString) =>
        (last.res.status \in 400..499 /\ ~last.res.started)

\* the commits commitLog returns to the request
LogOfRequest == commitLog(last.arg, StripLeadingSlashes(last.path), last.io)

\* C19 as claimed: the commit-log endpoint answers with one summary per
\* commit commitLog returns, in the same order, each with one parent link per
\* parent of the commit.
C19_SummaryPerCommit ==
    (last.op = "commits" /\ last.isString /\ LogOfRequest.err = NONE) =>
        /\ last.res.status = 200
        /\ Len(last.res.body) = Len(LogOfRequest.val)
        /\ \A i \in 1..Len(LogOfRequest.val) :
            /\ last.res.body[i].sha = LogOfRequest.val[i]
            /\ Len(last.res.body[i].parents) = Len(objects[LogOfRequest.val[i]].parent)

\* ---- tree entries

\* the segments of a tree path
Segments(treePath) == [i \in 1..Len(SelectSeq(treePath, LAMBDA ch : ch # "/")) |->
                          <<SelectSeq(treePath, LAMBDA ch : ch # "/")[i]>>]

\* segments joined with "/"
RECURSIVE JoinSegments(_)
JoinSegments(segs) ==
    IF segs = <<>> THEN <<>>
    ELSE IF Len(segs) = 1 THEN segs[1]
    ELSE segs[1] \o <<"/">> \o JoinSegments(Tail(segs))

\* the entries of the tree, each under the segments of its ancestors
ChildrenOf(store, tid, segs) ==
    {[e EXCEPT !.path = JoinSegments(segs \o <<e.path>>)] :
        e \in {store[tid][i] : i \in 1..Len(store[tid])}}

\* every entry reachable from the tree, subtrees descended into, submodules not
RECURSIVE ReachableFrom(_, _, _)
ReachableFrom(store, tid, segs) ==
    ChildrenOf(store, tid, segs)
        \cup UNION {ReachableFrom(store, store[tid][i].oid, segs \o <<store[tid][i].path>>) :
                        i \in {k \in 1..Len(store[tid]) : store[tid][k].type = "tree"}}

\* the entries of a sequence
Range(q) == {q[i] : i \in 1..Len(q)}

\* path is the path of something below the entry at dir
Below(dir, path) == Len(path) > Len(dir) + 1 /\ SubSeq(path, 1, Len(dir) + 1) = dir \o <<"/">>

\* C21: collectTreeEntries with deep=true lists every reachable entry exactly
\* once under its joined path, a subtree before the entries below it and
\* nothing below a submodule; with deep=false it lists the immediate children.
C21_CollectsEveryEntryOnce ==
    last.op = "collectTreeEntries" =>
        LET res == last.res
            segs == Segments(last.path)
            want == IF last.deep THEN ReachableFrom(last.store, "t1", segs)
                    ELSE ChildrenOf(last.store, "t1", segs)
        IN  /\ Range(res) = want
            /\ Len(res) = Cardinality(want)
            /\ \A i, j \in 1..Len(res) :
                /\ Below(res[i].path, res[j].path) => (res[i].type = "tree" /\ i < j)

\* a file and a submodule two levels down, under a directory path
C21_Witness ==
    /\ last.op = "collectTreeEntries"
    /\ last.deep
    /\ last.path = <<"x", "/">>
    /\ \E i, j, k \in 1..Len(last.res) :
        /\ last.res[i].path = <<"x", "/", "a", "/", "b">>
        /\ last.res[i].type = "tree"
        /\ last.res[j].path = <<"x", "/", "a", "/", "b", "/", "a">>
        /\ last.res[j].type = "blob"
        /\ last.res[k].path = <<"x", "/", "a", "/", "b", "/", "b">>
        /\ last.res[k].type = "commit"

\* ---- the transfer handler

\* C22: a transfer request spawns git at most once: once, with the command of
\* the service, its arguments and the repository path last, when the request
\* parsed into a service; never when parsing reported an error; and not again
\* after the process failed.
C22_SpawnAtMostOnce ==
    xfer.pc # "idle" =>
        /\ Len(xfer.spawns) <= 1
        /\ xfer.parsed # <<>> =>
            xfer.spawns = <<[cmd |-> xfer.service, args |-> xfer.parsed[1].args \o <<RepPath>>]>>
        /\ xfer.parsed = <<>> => xfer.spawns = <<>>
        /\ xfer.errored => xfer.spawns = <<>>

\* a push whose process could not be started, body still arriving
C22_Witness ==
    /\ xfer.pc = "crashed"
    /\ xfer.child = "failed"
    /\ xfer.service = "git-receive-pack"
    /\ xfer.spawns = <<[cmd |-> "git-receive-pack", args |-> <<"--stateless-rpc", RepPath>>]>>

\* ---- the raw-request listener

\* C23: the raw-content response is the same whether the listener throws,
\* returns or is not configured.
C23_ListenerNeverChangesResponse ==
    last.op = "rawRequest" => \A l \in Listeners : last.under[l] = last.res

\* a file served although the listener threw
C23_Witness ==
    /\ last.op = "rawRequest"
    /\ last.listener = "throws"
    /\ last.res.status = 200
    /\ last.under["none"].status = 200

\* ---- the commit log, on cloned histories

\* a call of commitLog with a path filter whose ref has a history
FilteredLog ==
    /\ last.op = "commitLog"
    /\ ~last.io
    /\ Len(last.path) > 0
    /\ log(last.arg, FALSE).err = NONE

\* the path can be read in the k-th commit of the chain
ReadableAt(k) == EntryAt(Chain[k]) # 0

\* the commits of the result
Emitted == {last.res.val[i] : i \in 1..Len(last.res.val)}

\* C24 as claimed: where the path is readable in every commit of the chain,
\* every commit whose next older commit has another blob id at the path is
\* emitted, also when that older commit is the oldest of the chain.
C24_EveryChangeEmitted ==
    (FilteredLog /\ \A k \in 1..Len(Chain) : ReadableAt(k)) =>
        \A i \in 2..Len(Chain) :
            EntryAt(Chain[i]) # EntryAt(Chain[i - 1]) => Chain[i - 1] \in Emitted

\* the position of a commit in the chain
PositionOf(c) == CHOOSE k \in 1..Len(Chain) : Chain[k] = c

\* the k-th commit is the newest one the path cannot be read in
FirstUnreadable(k) ==
    /\ k \in 1..Len(Chain)
    /\ ~ReadableAt(k)
    /\ \A i \in 1..(k - 1) : ReadableAt(i)

\* C25: if the path is readable in the commits newer than ck and not in ck,
\* the commit just before ck is the last one emitted and nothing older than
\* it is emitted.
C25_StopsAtMissingPath ==
    FilteredLog =>
        \A k \in 2..Len(Chain) : FirstUnreadable(k) =>
            /\ last.res.err = NONE
            /\ last.res.val # <<>>
            /\ last.res.val[Len(last.res.val)] = Chain[k - 1]
            /\ \A c \in Emitted : PositionOf(c) <= k - 1

\* the path is in the newest commit, not in its parent, and again in the oldest
C25_Witness ==
    /\ FilteredLog
    /\ Len(Chain) = 3
    /\ ReadableAt(1)
    /\ FirstUnreadable(2)
    /\ ReadableAt(3)
    /\ last.res.val = <<Chain[1]>>

\* C26: if the path cannot be read in the newest commit, commitLog returns
\* the empty list and reads the path in no older commit.
C26_EmptyWhenNewestLacksPath ==
    (FilteredLog /\ FirstUnreadable(1)) =>
        /\ last.res = R(NONE, <<>>)
        /\ ReadsOfLoop(Chain, last.path, 1) = <<Chain[1]>>

\* the path is gone from the newest of three commits
C26_Witness ==
    /\ FilteredLog
    /\ Len(Chain) = 3
    /\ FirstUnreadable(1)
    /\ ReadableAt(2)
    /\ last.res.val = <<>>

\* ---- concurrent archive builds

\* C27 as claimed: however the cache checks, opens, writes and reads of
\* concurrent requests for one key of a ref that is not checked out
\* interleave, every answered request carries the complete archive of the
\* commit, and the cache files are complete once no request is at work.
C27_ConcurrentBuildsComplete ==
    /\ \A s \in Slots :
        (areq[s].pc = "done" /\ ~areq[s].serveUncommitted /\ areq[s].status = 200) =>
            areq[s].body = Archive(EntryOf(areq[s].commitSha), areq[s].body.build)
    /\ (\A s \in Slots : areq[s].pc \in {"idle", "done"} /\ (areq[s].pc = "done" => areq[s].status = 200)) =>
            \A n \in DOMAIN cache : Finalized(cache[n])

\* ---- the case-sensitivity flag

\* C28 as claimed: the flag is computed at most once, also when calls start
\* before the first has finished, and every call returns the one value.
C28_FlagComputedOnce ==
    /\ probe.stats <= 1
    /\ \A p, q \in Callers :
        (probe.call[p].pc = "done" /\ probe.call[q].pc = "done") =>
            probe.call[p].ret = probe.call[q].ret

\* ---- pathExists

\* the segments of the tested path
TestedNames == SplitPath(last.path)

\* every segment is there under its parent, spelled as given
SpelledAsGiven == TestedNames = <<>> \/ TestedNames \in DOMAIN last.tree

\* the tested path with every name in upper case
UpperCased(names) == [i \in 1..Len(names) |->
                        CASE names[i] = "d" -> "D" [] names[i] = "f" -> "F" [] OTHER -> names[i]]

C30_MatchedRequestsReachHandler ==
    (mw.pc = "done" /\ mw.app = "app" /\ RouteOf(mw.url) # NONE) =>
        mw.reached = RouteOf(mw.url)

====
